---- MODULE Spec2Model ----
(***************************************************************************)
(* Model of agent_voice_bridge: the media_stream session handler of        *)
(* server.py (telephony WebSocket <-> Gemini Live session) together with   *)
(* the audio conversions it calls.                                         *)
(*                                                                         *)
(* Byte strings are sequences of 0..255.  A base64 text is a sequence of   *)
(* characters: 0..63 are the alphabet digits, PadChar is '=', JunkChar is  *)
(* any character outside the alphabet.  Python's None is NoSid for the     *)
(* stream id and NoState for a resample state.                             *)
(***************************************************************************)
EXTENDS Integers, Sequences, FiniteSets, TLC

NoSid == "<None>"
NoState == [none |-> TRUE]

Max(a, b) == IF a >= b THEN a ELSE b
Min(a, b) == IF a <= b THEN a ELSE b

Pow2(k) == 2 ^ k

(***************************************************************************)
(* base64.b64decode(payload) with validate=False (binascii.a2b_base64):    *)
(* characters outside the alphabet are skipped; a '=' met at quad position *)
(* 3, or a second '=' in a row at quad position 2, ends the parse; input   *)
(* that ends inside a quad without that padding raises binascii.Error.     *)
(***************************************************************************)
PadChar == 64
JunkChar == 65

IsDigit(c) == c < 64

\* number of alphabet digits among the first i characters of s
DigitsBefore(s, i) == Cardinality({j \in 1..i : IsDigit(s[j])})

\* the '=' at position i ends the parse
PadStops(s, i) ==
  /\ s[i] = PadChar
  /\ LET q == DigitsBefore(s, i - 1) % 4
     IN \/ q = 3
        \/ /\ q = 2
           /\ \E j \in 1..(i - 1) :
                /\ s[j] = PadChar
                /\ \A k \in (j + 1)..(i - 1) : ~IsDigit(s[k])
                /\ DigitsBefore(s, j - 1) % 4 = 2

PadPositions(s) == {i \in 1..Len(s) : s[i] = PadChar}

StopPositions(s) == {i \in PadPositions(s) : PadStops(s, i)}

FirstOf(S) == CHOOSE i \in S : \A j \in S : i <= j

\* the digits that are parsed: those before the stopping pad, if any
ParsedDigits(s) ==
  LET stops == StopPositions(s)
      upto == IF stops = {} THEN Len(s) ELSE FirstOf(stops) - 1
  IN SelectSeq(SubSeq(s, 1, upto), IsDigit)

B64DecodeRaises(s) == StopPositions(s) = {} /\ Len(ParsedDigits(s)) % 4 # 0

B64Decode(s) ==
  LET d == ParsedDigits(s)
      nd == Len(d)
      r == nd % 4
      nbytes == (nd \div 4) * 3 + (IF r = 0 THEN 0 ELSE r - 1)
  IN [k \in 1..nbytes |->
        LET g == ((k - 1) \div 3) * 4
            p == (k - 1) % 3
        IN IF p = 0 THEN d[g + 1] * 4 + (d[g + 2] \div 16)
           ELSE IF p = 1 THEN (d[g + 2] % 16) * 16 + (d[g + 3] \div 4)
           ELSE (d[g + 3] % 4) * 64 + d[g + 4]]

(***************************************************************************)
(* base64.b64encode(mulaw): three bytes give four digits, a short last     *)
(* group is padded with '='.                                               *)
(***************************************************************************)
B64Encode(b) ==
  LET n == Len(b)
      nchars == ((n + 2) \div 3) * 4
      At(i) == IF i <= n THEN b[i] ELSE 0
  IN [k \in 1..nchars |->
        LET g == ((k - 1) \div 4) * 3
            p == (k - 1) % 4
        IN IF p = 0 THEN At(g + 1) \div 4
           ELSE IF p = 1 THEN (At(g + 1) % 4) * 16 + (At(g + 2) \div 16)
           ELSE IF p = 2 THEN
                  IF g + 2 > n THEN PadChar
                  ELSE (At(g + 2) % 16) * 4 + (At(g + 3) \div 64)
           ELSE IF g + 3 > n THEN PadChar ELSE At(g + 3) % 64]

(***************************************************************************)
(* PCM16 samples as little-endian byte pairs.                              *)
(***************************************************************************)
SampleAt(bytes, i) ==
  LET u == bytes[2 * i - 1] + 256 * bytes[2 * i]
  IN IF u >= 32768 THEN u - 65536 ELSE u

SamplesToBytes(samples) ==
  [k \in 1..(2 * Len(samples)) |->
     LET u == samples[(k + 1) \div 2] % 65536
     IN IF k % 2 = 1 THEN u % 256 ELSE u \div 256]

(***************************************************************************)
(* audioop.ulaw2lin(chunk, 2): G.711 mu-law expansion, one 16-bit sample   *)
(* per code.                                                               *)
(***************************************************************************)
UlawBias == 132

UlawToLinear(code) ==
  LET u == 255 - code
      t == ((u % 16) * 8 + UlawBias) * Pow2((u \div 16) % 8)
  IN IF u >= 128 THEN UlawBias - t ELSE t - UlawBias

Ulaw2Lin(chunk) == SamplesToBytes([i \in 1..Len(chunk) |-> UlawToLinear(chunk[i])])

(***************************************************************************)
(* audioop.lin2ulaw(pcm_8k, 2): the sample is reduced to 14 bits, clipped, *)
(* biased, and coded as segment and 4-bit mantissa, all bits inverted.     *)
(***************************************************************************)
UlawClip == 8159

SegEnd(seg) == Pow2(seg + 6) - 1

LinearToUlaw(sample) ==
  LET v14 == sample \div 4
      neg == v14 < 0
      mag == Min(IF neg THEN -v14 ELSE v14, UlawClip) + (UlawBias \div 4)
      segs == {s \in 0..7 : mag <= SegEnd(s)}
  IN IF segs = {} THEN (IF neg THEN 0 ELSE 128)
     ELSE LET seg == FirstOf(segs)
              uval == seg * 16 + ((mag \div Pow2(seg + 1)) % 16)
          IN IF neg THEN 127 - uval ELSE 255 - uval

Lin2Ulaw(pcm) == [i \in 1..(Len(pcm) \div 2) |-> LinearToUlaw(SampleAt(pcm, i))]

(***************************************************************************)
(* audioop.ratecv(fragment, 2, 1, inrate, outrate, state): linear          *)
(* interpolation with a carried state (d, prev, cur); prev and cur are the *)
(* last two input samples (audioop keeps them shifted left by 16 bits; the *)
(* model keeps the 16-bit values).  A fragment that is no whole number of  *)
(* 16-bit frames raises audioop.error.                                     *)
(***************************************************************************)
RECURSIVE Gcd(_, _)
Gcd(a, b) == IF b = 0 THEN a ELSE Gcd(b, a % b)

RateCvRaises(fragment) == Len(fragment) % 2 # 0

InitialRateState(outrate) == [d |-> -outrate, prev |-> 0, cur |-> 0]

\* The interpolated value is trunc((prev*d + cur*(b-d)) / b) >> 16 on the 32-bit
\* values, which is floor((p*d + c*(b-d)) / b) on the 16-bit samples p and c.
RateCv(fragment, inrate, outrate, state) ==
  LET g == Gcd(inrate, outrate)
      a == inrate \div g
      b == outrate \div g
      st == IF state = NoState THEN InitialRateState(b) ELSE state
      n == Len(fragment) \div 2
      In16(k) == IF k = 0 THEN st.cur ELSE SampleAt(fragment, k)
      nout == Max(0, ((st.d + n * b) \div a) + 1)
      out == [m \in 1..nout |->
                LET k == ((m - 1) * a - st.d + b - 1) \div b
                    d == st.d + k * b - (m - 1) * a
                IN (In16(k - 1) * d + In16(k) * (b - d)) \div b]
      newstate == [d |-> st.d + n * b - nout * a,
                   prev |-> IF n = 0 THEN st.prev ELSE In16(n - 1),
                   cur |-> In16(n)]
  IN <<SamplesToBytes(out), newstate>>

(***************************************************************************)
(* server.py: the two conversions of the session.                          *)
(***************************************************************************)
TelephonyRate == 8000
AiInputRate == 16000
AiOutputRate == 24000

\* variant: the mu-law bytes are passed on without the conversion to PCM
process_incoming_unconverted(chunk, state) ==
  <<chunk, RateCv(Ulaw2Lin(chunk), TelephonyRate, AiInputRate, state)[2]>>

\* process_incoming_audio(chunk, state): <<pcm_16k, new_state>>
process_incoming_audio(chunk, state) ==
  RateCv(Ulaw2Lin(chunk), TelephonyRate, AiInputRate, state)

\* variant: the chunk is converted as if it were at the AI input rate
process_outgoing_audio_from_input_rate(audio_data, state) ==
  LET r == RateCv(audio_data, AiInputRate, TelephonyRate, state)
  IN <<B64Encode(Lin2Ulaw(r[1])), r[2]>>

\* process_outgoing_audio(audio_data, state): <<b64_audio, new_state>>
process_outgoing_audio(audio_data, state) ==
  LET r == RateCv(audio_data, AiOutputRate, TelephonyRate, state)
  IN <<B64Encode(Lin2Ulaw(r[1])), r[2]>>

process_outgoing_raises(audio_data) == RateCvRaises(audio_data)

BUFFER_SIZE == 9600

(***************************************************************************)
(* The telephony peer's text messages, after json.loads.  A dict is a      *)
(* record; a key the message does not carry is absent from its domain.     *)
(***************************************************************************)
Get(d, k, default) == IF k \in DOMAIN d THEN d[k] ELSE default

EmptyDict == [x \in {} |-> 0]

\* 3 mu-law bytes: 10 or 12 bytes of 16 kHz PCM
PayloadSmall == <<20, 31, 63, 0>>
\* 2403 mu-law bytes: 9610 or 9612 bytes of 16 kHz PCM, a frame by itself
PayloadBig == [i \in 1..3204 |-> (i * 7 + (i \div 64)) % 64]
PayloadBadPadding == <<26, 27, 28>>
PayloadJunk == <<JunkChar, JunkChar, JunkChar, JunkChar>>

MsgStart(sid) ==
  [event |-> "start",
   start |-> [streamSid |-> sid, customParameters |-> [caller |-> "+15550100"]]]

MsgMedia(payload) == [event |-> "media", media |-> [payload |-> payload]]

MessageNames ==
  {"connected", "start_MZ1", "start_empty_sid", "start_no_sid",
   "media_small", "media_big", "media_bad_padding", "media_junk",
   "media_no_payload", "mark", "stop", "not_json"}

MediaNames == {"media_small", "media_big", "media_bad_padding", "media_junk",
               "media_no_payload"}

Message(name) ==
  CASE name = "connected" -> [event |-> "connected", protocol |-> "Call"]
    [] name = "start_MZ1" -> MsgStart("MZ1")
    [] name = "start_empty_sid" -> MsgStart("")
    [] name = "start_no_sid" -> [event |-> "start", start |-> [callSid |-> "CA1"]]
    [] name = "media_small" -> MsgMedia(PayloadSmall)
    [] name = "media_big" -> MsgMedia(PayloadBig)
    [] name = "media_bad_padding" -> MsgMedia(PayloadBadPadding)
    [] name = "media_junk" -> MsgMedia(PayloadJunk)
    [] name = "media_no_payload" -> [event |-> "media"]
    [] name = "mark" -> [event |-> "mark"]
    [] name = "stop" -> [event |-> "stop"]
    [] name = "not_json" -> [malformed |-> TRUE]

JsonLoadsRaises(msg) == "malformed" \in DOMAIN msg

\* `if not stream_info["sid"]`: None and the empty string are falsy
SidKnown(sid) == sid # NoSid /\ sid # ""

(***************************************************************************)
(* The inbound conversions, tabulated once over the payloads of the model  *)
(* and the resample states they lead to (a resample state holds the last   *)
(* two samples of the chunk before).                                       *)
(***************************************************************************)
MediaPayloads ==
  {Get(Get(Message(n), "media", EmptyDict), "payload", <<>>) : n \in MediaNames}
    \ {<<>>}

\* chunk = base64.b64decode(payload): the bytes, or that it raises
Decoded ==
  [p \in MediaPayloads |->
     IF B64DecodeRaises(p) THEN [raises |-> TRUE, chunk |-> <<>>]
     ELSE [raises |-> FALSE, chunk |-> B64Decode(p)]]

MediaChunks == {Decoded[p].chunk : p \in {q \in MediaPayloads : ~Decoded[q].raises}}

UpsampleStep(S) ==
  S \cup {process_incoming_audio(c, st)[2] : c \in MediaChunks, st \in S}

UpsampleStates == UpsampleStep(UpsampleStep({NoState}))

Incoming ==
  [c \in MediaChunks, st \in UpsampleStates |-> process_incoming_audio(c, st)]

(***************************************************************************)
(* The AI peer's responses, as read from session.receive().                *)
(***************************************************************************)
ChunkA == SamplesToBytes(<<1000, 2000, 3000, -4000, -5000, -6000>>)
ChunkB == SamplesToBytes(<<-20000, 32767, -32768>>)
ChunkOdd == <<1, 2, 3>>

\* Python's None where a response field is unset
None == [none |-> TRUE]

AudioPart(data) == [inline_data |-> [data |-> data]]
TextPart == [inline_data |-> None, text |-> "ok"]

RespAudio(parts) ==
  [server_content |-> [model_turn |-> [parts |-> parts], turn_complete |-> FALSE]]

ResponseNames ==
  {"setup", "audio_A", "audio_AB", "audio_odd", "empty_part", "turn_complete"}

Response(name) ==
  CASE name = "setup" -> [server_content |-> None]
    [] name = "audio_A" -> RespAudio(<<AudioPart(ChunkA)>>)
    [] name = "audio_AB" ->
         RespAudio(<<AudioPart(ChunkA), TextPart, AudioPart(ChunkB)>>)
    [] name = "audio_odd" -> RespAudio(<<AudioPart(ChunkOdd)>>)
    [] name = "empty_part" -> RespAudio(<<AudioPart(<<>>)>>)
    [] name = "turn_complete" ->
         [server_content |-> [model_turn |-> None, turn_complete |-> TRUE]]

\* the parts of a response that reach process_outgoing_audio: those of
\* server_content.model_turn.parts with non-empty inline_data.data
AudioParts(resp) ==
  IF resp.server_content = None THEN <<>>
  ELSE IF resp.server_content.model_turn = None THEN <<>>
  ELSE LET HasData(part) ==
             part.inline_data # None /\ part.inline_data.data # <<>>
       IN SelectSeq(resp.server_content.model_turn.parts, HasData)

\* the audio chunks of the model that convert, and the resample states they
\* lead to, tabulated as the inbound conversions are
ResponseChunks ==
  UNION {{AudioParts(Response(n))[i].inline_data.data :
            i \in 1..Len(AudioParts(Response(n)))} : n \in ResponseNames}

GoodChunks == {c \in ResponseChunks : ~process_outgoing_raises(c)}

DownsampleStep(S) ==
  S \cup {process_outgoing_audio(c, st)[2] : c \in GoodChunks, st \in S}

DownsampleStates == DownsampleStep(DownsampleStep({NoState}))

Outgoing ==
  [c \in GoodChunks, st \in DownsampleStates |-> process_outgoing_audio(c, st)]

(***************************************************************************)
(* audio.py: the numpy codec and resampler.  An array of int16 is a        *)
(* sequence of integers; numpy's fixed-width arithmetic is kept: int16     *)
(* wraps modulo 2^16 and uint8 modulo 2^8.                                  *)
(***************************************************************************)
Int16(v) == ((v + 32768) % 65536) - 32768
Uint8(v) == v % 256
Clip(v, lo, hi) == Max(lo, Min(v, hi))
Abs(v) == IF v < 0 THEN -v ELSE v

\* variant: the table is indexed by the inverted code
ULAW_DECODE_TABLE_INVERTED == [i \in 1..256 |-> UlawToLinear(256 - i)]

\* ULAW_DECODE_TABLE, with code b at position b + 1
ULAW_DECODE_TABLE ==
  <<
     -32124, -31100, -30076, -29052, -28028, -27004, -25980, -24956,
     -23932, -22908, -21884, -20860, -19836, -18812, -17788, -16764,
     -15996, -15484, -14972, -14460, -13948, -13436, -12924, -12412,
     -11900, -11388, -10876, -10364, -9852, -9340, -8828, -8316,
     -7932, -7676, -7420, -7164, -6908, -6652, -6396, -6140,
     -5884, -5628, -5372, -5116, -4860, -4604, -4348, -4092,
     -3900, -3772, -3644, -3516, -3388, -3260, -3132, -3004,
     -2876, -2748, -2620, -2492, -2364, -2236, -2108, -1980,
     -1884, -1820, -1756, -1692, -1628, -1564, -1500, -1436,
     -1372, -1308, -1244, -1180, -1116, -1052, -988, -924,
     -876, -844, -812, -780, -748, -716, -684, -652,
     -620, -588, -556, -524, -492, -460, -428, -396,
     -372, -356, -340, -324, -308, -292, -276, -260,
     -244, -228, -212, -196, -180, -164, -148, -132,
     -120, -112, -104, -96, -88, -80, -72, -64,
     -56, -48, -40, -32, -24, -16, -8, 0,
     32124, 31100, 30076, 29052, 28028, 27004, 25980, 24956,
     23932, 22908, 21884, 20860, 19836, 18812, 17788, 16764,
     15996, 15484, 14972, 14460, 13948, 13436, 12924, 12412,
     11900, 11388, 10876, 10364, 9852, 9340, 8828, 8316,
     7932, 7676, 7420, 7164, 6908, 6652, 6396, 6140,
     5884, 5628, 5372, 5116, 4860, 4604, 4348, 4092,
     3900, 3772, 3644, 3516, 3388, 3260, 3132, 3004,
     2876, 2748, 2620, 2492, 2364, 2236, 2108, 1980,
     1884, 1820, 1756, 1692, 1628, 1564, 1500, 1436,
     1372, 1308, 1244, 1180, 1116, 1052, 988, 924,
     876, 844, 812, 780, 748, 716, 684, 652,
     620, 588, 556, 524, 492, 460, 428, 396,
     372, 356, 340, 324, 308, 292, 276, 260,
     244, 228, 212, 196, 180, 164, 148, 132,
     120, 112, 104, 96, 88, 80, 72, 64,
     56, 48, 40, 32, 24, 16, 8, 0
  >>

\* ulaw_to_pcm16(ulaw_bytes): ULAW_DECODE_TABLE[ulaw_array]
ulaw_to_pcm16(ulaw_bytes) ==
  [i \in 1..Len(ulaw_bytes) |-> ULAW_DECODE_TABLE[ulaw_bytes[i] + 1]]

\* np.floor(np.log2(v)) for an integer v >= 1
RECURSIVE FloorLog2(_)
FloorLog2(v) == IF v <= 1 THEN 0 ELSE 1 + FloorLog2(v \div 2)

\* variant: the mantissa is taken one bit too high
EncodeSampleShifted(x) ==
  LET sign == IF x < 0 THEN 128 ELSE 0
      magnitude == Int16(Abs(x))
      biased == Clip(Int16(magnitude + 132), 0, 32767)
      exponent == Clip(Uint8(FloorLog2(biased + 1) - 7), 0, 7)
      mantissa == (biased \div Pow2(exponent + 4)) % 16
  IN 255 - (sign + exponent * 16 + mantissa)

\* pcm16_to_ulaw on one sample.  The steps, with their numpy types:
\*   sign      uint8:  0x80 for a negative sample
\*   magnitude int16:  np.abs(pcm16)
\*   biased    int16:  np.clip(pcm16 + 132, 0, 32767), the sum made in int16
\*   exponent  uint8:  floor(log2(biased + 1)), minus 7 in uint8, clipped to 0..7
\*   mantissa  int16:  (biased >> (exponent + 3)) & 0x0F
\*   ulaw:             ~(sign | exponent << 4 | mantissa) & 0xFF
EncodeSample(x) ==
  LET sign == IF x < 0 THEN 128 ELSE 0
      magnitude == Int16(Abs(x))
      biased == Clip(Int16(magnitude + 132), 0, 32767)
      exponent == Clip(Uint8(FloorLog2(biased + 1) - 7), 0, 7)
      mantissa == (biased \div Pow2(exponent + 3)) % 16
  IN 255 - (sign + exponent * 16 + mantissa)

\* pcm16_to_ulaw(pcm16)
pcm16_to_ulaw(pcm16) == [i \in 1..Len(pcm16) |-> EncodeSample(Int16(pcm16[i]))]

\* new_length = int(len(audio) * to_rate / from_rate)
resample_length(n, from_rate, to_rate) == (n * to_rate) \div from_rate

\* np.interp raises ValueError for an empty array of sample points
resample_raises(audio, from_rate, to_rate) ==
  from_rate # to_rate /\ Len(audio) = 0

(***************************************************************************)
(* float64 arithmetic of np.linspace and np.interp.  A natural number of   *)
(* any size is a sequence of limbs of LimbBits bits, least significant    *)
(* first, without leading zero limbs; a float64 is the record of a sign,   *)
(* a mantissa of MantBits bits and an exponent, sign * mant * 2^exp, or    *)
(* zero with an empty mantissa.  Every operation gives the exact result    *)
(* rounded to the nearest float64, ties to even, as IEEE 754 arithmetic    *)
(* does.                                                                   *)
(***************************************************************************)
LimbBits == 15
\* bits of the significand of a float64
MantBits == 53

RECURSIVE BigNorm(_)
BigNorm(a) ==
  IF a = <<>> \/ a[Len(a)] # 0 THEN a ELSE BigNorm(SubSeq(a, 1, Len(a) - 1))

LimbAt(a, i) == IF i >= 1 /\ i <= Len(a) THEN a[i] ELSE 0

\* -1, 0 or 1 as a < b, a = b or a > b, compared from limb i downward
RECURSIVE BigCmp(_, _, _)
BigCmp(a, b, i) ==
  IF i = 0 THEN 0
  ELSE IF LimbAt(a, i) > LimbAt(b, i) THEN 1
  ELSE IF LimbAt(a, i) < LimbAt(b, i) THEN -1
  ELSE BigCmp(a, b, i - 1)

\* the limbs of a sequence of integers, carries and borrows passed upward
RECURSIVE BigCarry(_, _, _)
BigCarry(s, i, carry) ==
  IF i > Len(s)
  THEN IF carry = 0 THEN <<>> ELSE <<carry>>
  ELSE LET v == s[i] + carry
       IN <<v % Pow2(LimbBits)>> \o BigCarry(s, i + 1, v \div Pow2(LimbBits))

\* a + b for sb = 1, and a - b for sb = -1 and a >= b
BigSum(a, b, sb) ==
  BigNorm(BigCarry([i \in 1..Max(Len(a), Len(b)) |->
                      LimbAt(a, i) + sb * LimbAt(b, i)], 1, 0))

\* a times the limbs of b from limb i upward
RECURSIVE BigMul(_, _, _)
BigMul(a, b, i) ==
  IF i > Len(b) THEN <<>>
  ELSE BigSum(BigCarry([h \in 1..Len(a) |-> a[h] * b[i]], 1, 0),
              <<0>> \o BigMul(a, b, i + 1), 1)

\* a * 2^s
BigShl(a, s) ==
  LET q == s \div LimbBits
      r == s % LimbBits
      hi == Pow2(LimbBits - r)
  IN BigNorm([i \in 1..(Len(a) + q + 1) |->
                IF i <= q THEN 0
                ELSE (LimbAt(a, i - q) % hi) * Pow2(r)
                       + LimbAt(a, i - q - 1) \div hi])

\* a \div 2^s
BigShr(a, s) ==
  LET q == s \div LimbBits
      r == s % LimbBits
      lo == Pow2(r)
  IN BigNorm([i \in 1..Max(Len(a) - q, 0) |->
                LimbAt(a, i + q) \div lo
                  + (LimbAt(a, i + q + 1) % lo) * Pow2(LimbBits - r)])

\* the float64 nearest to the exact value x, ties to even
RoundF64(x) ==
  LET BitLen(a) ==
        IF a = <<>> THEN 0 ELSE LimbBits * (Len(a) - 1) + FloorLog2(a[Len(a)]) + 1
      Bit(a, i) == (LimbAt(a, i \div LimbBits + 1) \div Pow2(i % LimbBits)) % 2
      LowZero(a, s) ==
        /\ \A i \in 1..(s \div LimbBits) : LimbAt(a, i) = 0
        /\ LimbAt(a, s \div LimbBits + 1) % Pow2(s % LimbBits) = 0
      len == BitLen(x.mant)
      s == len - MantBits
      q == BigShr(x.mant, s)
      up == /\ Bit(x.mant, s - 1) = 1
            /\ (~LowZero(x.mant, s - 1) \/ Bit(q, 0) = 1)
      q2 == IF up THEN BigSum(q, <<1>>, 1) ELSE q
  IN IF len = 0 THEN [sign |-> 1, mant |-> <<>>, exp |-> 0]
     ELSE IF len <= MantBits
     THEN [sign |-> x.sign, mant |-> BigShl(x.mant, MantBits - len),
           exp |-> x.exp - (MantBits - len)]
     ELSE IF BitLen(q2) > MantBits
     THEN [sign |-> x.sign, mant |-> BigShr(q2, 1), exp |-> x.exp + s + 1]
     ELSE [sign |-> x.sign, mant |-> q2, exp |-> x.exp + s]

\* an integer below 2^30 in magnitude as a float64
F64(k) ==
  RoundF64([sign |-> IF k < 0 THEN -1 ELSE 1,
            mant |-> BigNorm(<<Abs(k) % Pow2(LimbBits), Abs(k) \div Pow2(LimbBits)>>),
            exp |-> 0])

\* a * b, exactly
ExactMul(a, b) ==
  [sign |-> a.sign * b.sign, mant |-> BigMul(a.mant, b.mant, 1),
   exp |-> a.exp + b.exp]

\* a + sb * b, exactly
ExactAdd(a, b, sb) ==
  LET e == Min(a.exp, b.exp)
      ma == BigShl(a.mant, a.exp - e)
      mb == BigShl(b.mant, b.exp - e)
      c == BigCmp(ma, mb, Max(Len(ma), Len(mb)))
  IN IF a.mant = <<>> THEN [b EXCEPT !.sign = sb * b.sign]
     ELSE IF b.mant = <<>> THEN a
     ELSE IF a.sign = sb * b.sign
     THEN [sign |-> a.sign, mant |-> BigSum(ma, mb, 1), exp |-> e]
     ELSE IF c >= 0 THEN [sign |-> a.sign, mant |-> BigSum(ma, mb, -1), exp |-> e]
     ELSE [sign |-> -a.sign, mant |-> BigSum(mb, ma, -1), exp |-> e]

\* k bits of the quotient of r * 2^k by d, for r < d, with the remainder
RECURSIVE DivBits(_, _, _, _)
DivBits(r, d, k, q) ==
  IF k = 0 THEN <<q, r>>
  ELSE LET r2 == BigSum(r, r, 1)
       IN IF BigCmp(r2, d, Max(Len(r2), Len(d))) >= 0
          THEN DivBits(BigSum(r2, d, -1), d, k - 1, 2 * q + 1)
          ELSE DivBits(r2, d, k - 1, 2 * q)

\* a / b for float64 a and b # 0: four limbs of quotient bits below the
\* leading bit, the lowest bit set when a remainder is left, then rounded
FDiv(a, b) ==
  LET q0 == IF BigCmp(a.mant, b.mant, Len(a.mant)) >= 0 THEN 1 ELSE 0
      r0 == IF q0 = 1 THEN BigSum(a.mant, b.mant, -1) ELSE a.mant
      c1 == DivBits(r0, b.mant, LimbBits, 0)
      c2 == DivBits(c1[2], b.mant, LimbBits, 0)
      c3 == DivBits(c2[2], b.mant, LimbBits, 0)
      c4 == DivBits(c3[2], b.mant, LimbBits, 0)
      sticky == IF c4[2] # <<>> /\ c4[1] % 2 = 0 THEN 1 ELSE 0
  IN IF a.mant = <<>> THEN a
     ELSE RoundF64([sign |-> a.sign * b.sign,
                    mant |-> BigNorm(<<c4[1] + sticky, c3[1], c2[1], c1[1], q0>>),
                    exp |-> a.exp - b.exp - 4 * LimbBits])

\* np.linspace(0, 1, num): step = 1 / (num - 1), the points i * step, and
\* the last point set to 1
linspace(num) ==
  LET step == FDiv(F64(1), F64(num - 1))
  IN [i \in 1..num |->
        IF i = 1 THEN F64(0)
        ELSE IF i = num THEN F64(1)
        ELSE RoundF64(ExactMul(F64(i - 1), step))]

\* np.interp(x, xp, fp) at one point x of x_new, number k of m: the interval
\* j with xp[j] <= x < xp[j + 1]; fp[j] at the last point and where x is
\* xp[j]; otherwise slope * (x - xp[j]) + fp[j], the product rounded before
\* the sum or, where the build fuses the two, only the sum
interp_at(k, m, x, xp, fp, slopes, fused) ==
  LET n == Len(xp)
      \* a <= b for float64 a, b >= 0
      Leq(a, b) ==
        IF a.mant = <<>> THEN TRUE
        ELSE IF b.mant = <<>> THEN FALSE
        ELSE \/ a.exp < b.exp
             \/ a.exp = b.exp /\ BigCmp(a.mant, b.mant, Len(a.mant)) <= 0
      guess == IF m = 1 THEN 1 ELSE ((k - 1) * (n - 1)) \div (m - 1) + 1
      near == {i \in (guess - 1)..(guess + 1) : i >= 1 /\ i <= n /\ Leq(xp[i], x)}
      j == CHOOSE i \in near : \A h \in near : h <= i
      d == RoundF64(ExactAdd(x, xp[j], -1))
      product == ExactMul(slopes[j], d)
  IN IF n = 1 \/ j = n \/ xp[j] = x THEN F64(fp[j])
     ELSE IF fused THEN RoundF64(ExactAdd(product, F64(fp[j]), 1))
     ELSE RoundF64(ExactAdd(RoundF64(product), F64(fp[j]), 1))

\* resample(audio, from_rate, to_rate): np.interp of the input over
\* np.linspace(0, 1, len(audio)) at np.linspace(0, 1, new_length), in
\* float64, cast back to int16 by dropping the fraction.  fused tells whether
\* the build computes slope * (x - xp[j]) + fp[j] with one rounding.
resample(audio, from_rate, to_rate, fused) ==
  IF from_rate = to_rate THEN audio
  ELSE LET n == Len(audio)
           m == resample_length(n, from_rate, to_rate)
           x_old == linspace(n)
           x_new == linspace(m)
           slopes == [j \in 1..(n - 1) |->
                        FDiv(F64(audio[j + 1] - audio[j]),
                             RoundF64(ExactAdd(x_old[j + 1], x_old[j], -1)))]
           \* .astype(int16) of a float64 below 2^30 in magnitude
           Trunc(a) ==
             LET t == IF a.exp >= 0 THEN BigShl(a.mant, a.exp)
                      ELSE BigShr(a.mant, -a.exp)
             IN a.sign * (LimbAt(t, 1) + LimbAt(t, 2) * Pow2(LimbBits))
       IN [k \in 1..m |->
             Int16(Trunc(interp_at(k, m, x_new[k], x_old, audio, slopes, fused)))]

\* twilio_audio_to_pcm16(payload, target_rate)
twilio_audio_to_pcm16(payload, target_rate, fused) ==
  LET pcm16 == ulaw_to_pcm16(B64Decode(payload))
  IN IF target_rate # TelephonyRate
     THEN resample(pcm16, TelephonyRate, target_rate, fused)
     ELSE pcm16

twilio_audio_to_pcm16_raises(payload, target_rate) ==
  \/ B64DecodeRaises(payload)
  \/ /\ target_rate # TelephonyRate
     /\ resample_raises(ulaw_to_pcm16(B64Decode(payload)), TelephonyRate, target_rate)

\* pcm16_to_twilio_audio(pcm16, source_rate)
pcm16_to_twilio_audio(pcm16, source_rate, fused) ==
  LET pcm_8k == IF source_rate # TelephonyRate
                THEN resample(pcm16, source_rate, TelephonyRate, fused)
                ELSE pcm16
  IN B64Encode(pcm16_to_ulaw(pcm_8k))

pcm16_to_twilio_audio_raises(pcm16, source_rate) ==
  source_rate # TelephonyRate /\ resample_raises(pcm16, source_rate, TelephonyRate)

(***************************************************************************)
(* Bounds of the model.                                                    *)
(***************************************************************************)
\* media messages carrying audio that are handled in one session
MaxMedia == 2
\* audio parts the AI peer delivers in one session
MaxChunks == 2

(***************************************************************************)
(* State of one session: media_stream(websocket) from websocket.accept()   *)
(* on.                                                                      *)
(***************************************************************************)
VARIABLES
  main_pc,           \* where the handler coroutine is suspended
  pump_pc,           \* where the gemini_receiver task is suspended
  cancel_req,        \* receive_task.cancel() has been called
  stream_sid,        \* stream_info["sid"]
  audio_buffer,      \* audio_buffer (bytes)
  upsample_state,    \* upsample_state
  downsample_state,  \* downsample_state
  tw_msg,            \* the message of the websocket.send_json() in progress
  tw_writes,         \* calls of websocket.send_json() in progress
  pump_parts,        \* parts of the current response not yet processed
  ai_open,           \* the Gemini Live session is open
  ai_closes,         \* times the Gemini Live session has been closed
  ai_sent,           \* frames the AI peer has received, in order
  tw_sent,           \* media messages the telephony peer has received, in order
  errors,            \* logger.error diagnostics emitted
  handler_exc,       \* exception that left media_stream, if any
  teardown,          \* what ended the message loop
  media_log,         \* names of the media messages whose audio was converted
  ai_arrived,        \* audio parts the pump has taken up, with the sid then
  ai_leg             \* how the AI leg failed, if it did

(***************************************************************************)
(* State of one GeminiLiveClient and of the provider behind it.            *)
(***************************************************************************)
VARIABLES
  context_manager,   \* self._context_manager: a handle, or NoHandle for None
  session,           \* self._session: a handle, or NoHandle for None
  connected,         \* self._connected
  cms,               \* context managers made by client.aio.live.connect()
  entered,           \* context managers whose __aenter__() has returned
  exits,             \* context managers whose __aexit__() was called, in order
  calls              \* the calls made on the client, with how each ended

\* None as the value of a handle attribute
NoHandle == 0

clientVars == <<context_manager, session, connected, cms, entered, exits, calls>>

(***************************************************************************)
(* The conversion function applied to an input, with its result: the       *)
(* functions of audio.py and the two conversions of server.py, taken on    *)
(* their own.                                                               *)
(***************************************************************************)
VARIABLES
  applied            \* the function applied, its arguments and its result

NotApplied == [fn |-> "none"]

vars == <<main_pc, pump_pc, cancel_req, stream_sid, audio_buffer, upsample_state,
          downsample_state, tw_msg, tw_writes, pump_parts, ai_open, ai_closes,
          ai_sent, tw_sent, errors, handler_exc, teardown, media_log,
          ai_arrived, ai_leg, clientVars, applied>>

\* state of the inbound loop
loopVars == <<stream_sid, audio_buffer, upsample_state, ai_sent,
              teardown, media_log>>
\* state of the outbound pump
pumpVars == <<pump_pc, downsample_state, tw_msg, tw_writes, pump_parts, tw_sent,
              ai_arrived>>

NoMsg == [none |-> TRUE]

Init ==
  /\ main_pc = "connect"
  /\ pump_pc = "none"
  /\ cancel_req = FALSE
  /\ stream_sid = NoSid
  /\ audio_buffer = <<>>
  /\ upsample_state = NoState
  /\ downsample_state = NoState
  /\ tw_msg = NoMsg
  /\ tw_writes = 0
  /\ pump_parts = <<>>
  /\ ai_open = FALSE
  /\ ai_closes = 0
  /\ ai_sent = <<>>
  /\ tw_sent = <<>>
  /\ errors = {}
  /\ handler_exc = "none"
  /\ teardown = "none"
  /\ media_log = <<>>
  /\ ai_arrived = <<>>
  /\ ai_leg = "ok"
  \* GeminiLiveClient.__init__
  /\ context_manager = NoHandle
  /\ session = NoHandle
  /\ connected = FALSE
  /\ cms = 0
  /\ entered = {}
  /\ exits = <<>>
  /\ calls = <<>>
  \* no conversion function applied yet
  /\ applied = NotApplied

(***************************************************************************)
(* `async with client.aio.live.connect(...) as session`, then              *)
(* asyncio.create_task(gemini_receiver()) and the first wait for a message.*)
(***************************************************************************)
Connect ==
  /\ main_pc = "connect"
  /\ main_pc' = "recv"
  /\ ai_open' = TRUE
  /\ pump_pc' = "created"
  /\ UNCHANGED <<cancel_req, stream_sid, audio_buffer, upsample_state,
                 downsample_state, tw_msg, tw_writes, pump_parts, ai_closes,
                 ai_sent, tw_sent, errors, handler_exc, teardown,
                 media_log, ai_arrived, ai_leg>>
  /\ UNCHANGED <<clientVars, applied>>

\* variant: after the failure the connection is attempted again
ConnectRetries ==
  /\ main_pc = "connect"
  /\ main_pc' = "connect"
  /\ handler_exc' = "connect"
  /\ UNCHANGED <<pump_pc, cancel_req, stream_sid, audio_buffer, upsample_state,
                 downsample_state, tw_msg, tw_writes, pump_parts, ai_open,
                 ai_closes, ai_sent, tw_sent, errors, teardown,
                 media_log, ai_arrived, ai_leg>>
  /\ UNCHANGED <<clientVars, applied>>

\* connect() raises: the exception leaves media_stream
ConnectFails ==
  /\ main_pc = "connect"
  /\ main_pc' = "failed"
  /\ handler_exc' = "connect"
  /\ UNCHANGED <<pump_pc, cancel_req, stream_sid, audio_buffer, upsample_state,
                 downsample_state, tw_msg, tw_writes, pump_parts, ai_open,
                 ai_closes, ai_sent, tw_sent, errors, teardown,
                 media_log, ai_arrived, ai_leg>>
  /\ UNCHANGED <<clientVars, applied>>

\* variant: the loop is left without cancelling the pump task
EnterFinallyNoCancel(why) ==
  /\ main_pc' = "await_task"
  /\ cancel_req' = cancel_req
  /\ teardown' = why

(***************************************************************************)
(* The `finally` of the message loop: receive_task.cancel(), then          *)
(* `await receive_task`.  Nothing is awaited between leaving the loop and  *)
(* the cancel() call.                                                      *)
(***************************************************************************)
EnterFinally(why) ==
  /\ main_pc' = "await_task"
  /\ cancel_req' = TRUE
  /\ teardown' = why

\* `except Exception as e: logger.error(f"Media stream error: {e}")`, then finally
LoopRaised ==
  /\ EnterFinally("error")
  /\ errors' = errors \cup {"Media stream error"}

\* the loop ends without an exception (break, or iter_text() is exhausted)
LoopEnded(why) ==
  /\ EnterFinally(why)
  /\ UNCHANGED errors

\* the loop goes on to wait for the next message
LoopWaits ==
  /\ main_pc' = "recv"
  /\ UNCHANGED <<cancel_req, errors, teardown>>

(***************************************************************************)
(* The message loop `async for message in websocket.iter_text()`: one      *)
(* action per message, from json.loads to the next point where the         *)
(* coroutine waits.                                                        *)
(***************************************************************************)
\* variant: a start message without a stream id is accepted like any other
HandleStartTolerant(data) ==
  LET start_data == Get(data, "start", EmptyDict)
      sid == Get(start_data, "streamSid", NoSid)
  IN /\ stream_sid' = sid
     /\ LoopWaits
     /\ UNCHANGED <<audio_buffer, upsample_state>>

\* event == "start"
HandleStart(data) ==
  LET start_data == Get(data, "start", EmptyDict)
      sid == Get(start_data, "streamSid", NoSid)
  IN /\ stream_sid' = sid
     \* the log line slices stream_info['sid']: None raises TypeError
     /\ IF sid = NoSid THEN LoopRaised ELSE LoopWaits
     /\ UNCHANGED <<audio_buffer, upsample_state>>

\* the buffer reaches BUFFER_SIZE: session.send(input={"data": bytes(audio_buffer)});
\* nothing changes audio_buffer while the send is awaited
BufferFull(buf) == Len(buf) >= BUFFER_SIZE

\* variant: every inbound conversion starts from the empty state
HandleMediaFreshState(data) ==
  LET payload == Get(Get(data, "media", EmptyDict), "payload", <<>>)
  IN /\ UNCHANGED stream_sid
     /\ IF payload = <<>>
        THEN /\ LoopWaits
             /\ UNCHANGED <<audio_buffer, upsample_state>>
        ELSE IF Decoded[payload].raises
        THEN /\ LoopRaised
             /\ UNCHANGED <<audio_buffer, upsample_state>>
        ELSE LET chunk == Decoded[payload].chunk
                 r == Incoming[chunk, NoState]
                 buf == audio_buffer \o r[1]
             IN /\ upsample_state' = r[2]
                /\ audio_buffer' = buf
                /\ IF BufferFull(buf)
                   THEN main_pc' = "send_ai"
                   ELSE main_pc' = "recv"
                /\ UNCHANGED <<cancel_req, errors, teardown>>

\* event == "media"
HandleMedia(data) ==
  LET payload == Get(Get(data, "media", EmptyDict), "payload", <<>>)
  IN /\ UNCHANGED stream_sid
     /\ IF payload = <<>>
        THEN /\ LoopWaits
             /\ UNCHANGED <<audio_buffer, upsample_state>>
        ELSE IF Decoded[payload].raises
        THEN /\ LoopRaised
             /\ UNCHANGED <<audio_buffer, upsample_state>>
        ELSE LET chunk == Decoded[payload].chunk
                 r == Incoming[chunk, upsample_state]
                 buf == audio_buffer \o r[1]
             IN /\ upsample_state' = r[2]
                /\ audio_buffer' = buf
                /\ IF BufferFull(buf)
                   THEN main_pc' = "send_ai"
                   ELSE main_pc' = "recv"
                /\ UNCHANGED <<cancel_req, errors, teardown>>

\* event == "stop": break
HandleStop ==
  /\ LoopEnded("stop")
  /\ UNCHANGED <<stream_sid, audio_buffer, upsample_state>>

\* variant: the message empties the accumulator
HandleOtherClearsBuffer ==
  /\ LoopWaits
  /\ audio_buffer' = <<>>
  /\ UNCHANGED <<stream_sid, upsample_state>>

\* event == "connected", or an event no branch matches
HandleOther ==
  /\ LoopWaits
  /\ UNCHANGED <<stream_sid, audio_buffer, upsample_state>>

\* json.loads(message) raises
HandleNotJson ==
  /\ LoopRaised
  /\ UNCHANGED <<stream_sid, audio_buffer, upsample_state>>

\* the media messages whose payload decodes to a non-empty chunk
AudioNames ==
  {n \in MediaNames :
     LET p == Get(Get(Message(n), "media", EmptyDict), "payload", <<>>)
     IN p # <<>> /\ ~Decoded[p].raises /\ Decoded[p].chunk # <<>>}

MainRecv(name) ==
  /\ main_pc = "recv"
  /\ name \in AudioNames => Len(media_log) < MaxMedia
  /\ media_log' = IF name \in AudioNames THEN Append(media_log, name) ELSE media_log
  /\ LET msg == Message(name)
     IN IF JsonLoadsRaises(msg) THEN HandleNotJson
        ELSE LET event == Get(msg, "event", "")
             IN CASE event = "start" -> HandleStart(msg)
                  [] event = "media" -> HandleMedia(msg)
                  [] event = "stop" -> HandleStop
                  [] OTHER -> HandleOther
  /\ UNCHANGED <<pumpVars, ai_open, ai_closes, ai_sent, handler_exc, ai_leg>>
  /\ UNCHANGED <<clientVars, applied>>

\* variant: the loop sends what the accumulator holds when it ends
MainDisconnectFlushes ==
  /\ main_pc = "recv"
  /\ LoopEnded("disconnect")
  /\ ai_sent' = IF audio_buffer = <<>> THEN ai_sent ELSE Append(ai_sent, audio_buffer)
  /\ audio_buffer' = <<>>
  /\ UNCHANGED <<pumpVars, stream_sid, upsample_state,
                 ai_open, ai_closes, handler_exc, media_log, ai_leg>>
  /\ UNCHANGED <<clientVars, applied>>

\* variant: the disconnect is logged like a failure of the loop
MainDisconnectLogged ==
  /\ main_pc = "recv"
  /\ EnterFinally("disconnect")
  /\ errors' = errors \cup {"Media stream error"}
  /\ UNCHANGED <<pumpVars, stream_sid, audio_buffer, upsample_state,
                 ai_open, ai_closes, ai_sent, handler_exc, media_log, ai_leg>>
  /\ UNCHANGED <<clientVars, applied>>

\* the telephony peer disconnects: iter_text() ends (or WebSocketDisconnect is
\* caught and logged at info level)
MainDisconnect ==
  /\ main_pc = "recv"
  /\ LoopEnded("disconnect")
  /\ UNCHANGED <<pumpVars, stream_sid, audio_buffer, upsample_state,
                 ai_open, ai_closes, ai_sent, handler_exc, media_log, ai_leg>>
  /\ UNCHANGED <<clientVars, applied>>

\* variant: the frame reaches the AI peer twice
MainSendDoneTwice ==
  /\ main_pc = "send_ai"
  /\ ai_sent' = ai_sent \o <<audio_buffer, audio_buffer>>
  /\ audio_buffer' = <<>>
  /\ main_pc' = "recv"
  /\ UNCHANGED <<pumpVars, cancel_req, stream_sid, upsample_state, ai_open,
                 ai_closes, errors, handler_exc, teardown, media_log, ai_leg>>
  /\ UNCHANGED <<clientVars, applied>>

\* variant: the frame is the first BUFFER_SIZE bytes and the rest stays buffered
MainSendDoneKeepsRest ==
  /\ main_pc = "send_ai"
  /\ ai_sent' = Append(ai_sent, SubSeq(audio_buffer, 1, BUFFER_SIZE))
  /\ audio_buffer' = SubSeq(audio_buffer, BUFFER_SIZE + 1, Len(audio_buffer))
  /\ main_pc' = "recv"
  /\ UNCHANGED <<pumpVars, cancel_req, stream_sid, upsample_state, ai_open,
                 ai_closes, errors, handler_exc, teardown, media_log, ai_leg>>
  /\ UNCHANGED <<clientVars, applied>>

\* variant: the buffer is not cleared after the send
MainSendDoneNoClear ==
  /\ main_pc = "send_ai"
  /\ ai_sent' = Append(ai_sent, audio_buffer)
  /\ main_pc' = "recv"
  /\ UNCHANGED <<pumpVars, cancel_req, stream_sid, audio_buffer, upsample_state,
                 ai_open, ai_closes, errors, handler_exc, teardown, media_log,
                 ai_leg>>
  /\ UNCHANGED <<clientVars, applied>>

\* `await session.send(...)` returns, then audio_buffer.clear()
MainSendDone ==
  /\ main_pc = "send_ai"
  /\ ai_sent' = Append(ai_sent, audio_buffer)
  /\ audio_buffer' = <<>>
  /\ main_pc' = "recv"
  /\ UNCHANGED <<pumpVars, cancel_req, stream_sid, upsample_state, ai_open,
                 ai_closes, errors, handler_exc, teardown, media_log, ai_leg>>
  /\ UNCHANGED <<clientVars, applied>>

\* `await session.send(...)` raises
MainSendFails ==
  /\ main_pc = "send_ai"
  /\ LoopRaised
  /\ ai_leg' = "send_error"
  /\ UNCHANGED <<pumpVars, stream_sid, audio_buffer, upsample_state, ai_open,
                 ai_closes, ai_sent, handler_exc, media_log>>
  /\ UNCHANGED <<clientVars, applied>>

\* variant: the task is cancelled but its end is not waited for
TaskSignalled == cancel_req

\* `await receive_task` returns once the task has finished
TaskDone == pump_pc = "done"

MainAwaitTask ==
  /\ main_pc = "await_task"
  /\ TaskDone
  /\ main_pc' = "exit"
  /\ UNCHANGED <<pumpVars, loopVars, cancel_req, ai_open, ai_closes, errors,
                 handler_exc, ai_leg>>
  /\ UNCHANGED <<clientVars, applied>>

\* variant: the session is closed by the handler and again by the `async with`
MainCloseAiTwice(raises) ==
  /\ main_pc = "exit"
  /\ main_pc' = "closed"
  /\ ai_open' = FALSE
  /\ ai_closes' = ai_closes + 2
  /\ handler_exc' = IF raises THEN "close" ELSE handler_exc
  /\ UNCHANGED <<pumpVars, loopVars, cancel_req, errors, ai_leg>>
  /\ UNCHANGED <<clientVars, applied>>

\* leaving the `async with`: the Gemini Live session is closed; an exception
\* raised by the close leaves media_stream
MainCloseAi(raises) ==
  /\ main_pc = "exit"
  /\ main_pc' = "closed"
  /\ ai_open' = FALSE
  /\ ai_closes' = ai_closes + 1
  /\ handler_exc' = IF raises THEN "close" ELSE handler_exc
  /\ UNCHANGED <<pumpVars, loopVars, cancel_req, errors, ai_leg>>
  /\ UNCHANGED <<clientVars, applied>>

(***************************************************************************)
(* gemini_receiver(): the outbound pump task.                              *)
(***************************************************************************)
\* variant: the message is built whatever the stream id is
send_unchecked(b64_audio, sid) ==
  [event |-> "media", streamSid |-> sid, media |-> [payload |-> b64_audio]]

\* send_to_twilio(b64_audio): the message handed to websocket.send_json, or
\* NoMsg when it returns without sending
send_to_twilio(b64_audio, sid) ==
  IF ~SidKnown(sid) THEN NoMsg
  ELSE [event |-> "media", streamSid |-> sid, media |-> [payload |-> b64_audio]]

\* The loop over the parts of one response, up to the first point where the
\* task waits (a send), raises, or has no part left.
RECURSIVE RunParts(_, _, _)
RunParts(parts, dstate, sid) ==
  IF parts = <<>>
  THEN [pc |-> "recv", state |-> dstate, msg |-> NoMsg, rest |-> <<>>,
        arrived |-> <<>>, raised |-> FALSE]
  ELSE LET data == Head(parts).inline_data.data
           entry == [data |-> data, sid |-> sid]
       IN IF process_outgoing_raises(data)
          THEN [pc |-> "done", state |-> dstate, msg |-> NoMsg, rest |-> <<>>,
                arrived |-> <<entry>>, raised |-> TRUE]
          ELSE LET r == Outgoing[data, dstate]
                   msg == send_to_twilio(r[1], sid)
               IN IF msg # NoMsg
                  THEN [pc |-> "send_tw", state |-> r[2], msg |-> msg,
                        rest |-> Tail(parts), arrived |-> <<entry>>,
                        raised |-> FALSE]
                  ELSE LET next == RunParts(Tail(parts), r[2], sid)
                       IN [next EXCEPT !.arrived = <<entry>> \o @]

\* the pump goes on with `parts` until it waits again or ends
PumpContinue(parts) ==
  LET run == RunParts(parts, downsample_state, stream_sid)
  IN /\ pump_pc' = run.pc
     /\ downsample_state' = run.state
     /\ tw_msg' = run.msg
     /\ pump_parts' = run.rest
     /\ ai_arrived' = ai_arrived \o run.arrived
     \* `except Exception as e: logger.error(f"Gemini receiver error: {e}")`
     /\ errors' = IF run.raised THEN errors \cup {"Gemini receiver error"}
                  ELSE errors

\* calls of websocket.send_json() begun when the pump goes on with `parts`
SendStarts(parts) ==
  IF RunParts(parts, downsample_state, stream_sid).pc = "send_tw" THEN 1 ELSE 0

\* the task runs for the first time and waits on session.receive()
PumpStart ==
  /\ pump_pc = "created"
  /\ ~cancel_req
  /\ pump_pc' = "recv"
  /\ UNCHANGED <<loopVars, main_pc, cancel_req, downsample_state, tw_msg, tw_writes,
                 pump_parts, ai_open, ai_closes, tw_sent, errors, handler_exc,
                 ai_arrived, ai_leg>>
  /\ UNCHANGED <<clientVars, applied>>

\* session.receive() yields a response
PumpRecv(name) ==
  /\ pump_pc = "recv"
  /\ ~cancel_req
  /\ LET parts == AudioParts(Response(name))
     IN /\ Len(ai_arrived) + Len(parts) <= MaxChunks
        /\ PumpContinue(parts)
        /\ tw_writes' = tw_writes + SendStarts(parts)
  /\ UNCHANGED <<loopVars, main_pc, cancel_req, ai_open, ai_closes, tw_sent,
                 handler_exc, ai_leg>>
  /\ UNCHANGED <<clientVars, applied>>

\* variant: the send to the telephony peer completes only once the message
\* loop has stopped waiting for a telephony message
PumpSendDoneAfterLoop ==
  /\ pump_pc = "send_tw"
  /\ main_pc # "recv"
  /\ ~cancel_req
  /\ tw_sent' = Append(tw_sent, tw_msg)
  /\ PumpContinue(pump_parts)
  /\ tw_writes' = tw_writes - 1 + SendStarts(pump_parts)
  /\ UNCHANGED <<loopVars, main_pc, cancel_req, ai_open, ai_closes, handler_exc,
                 ai_leg>>
  /\ UNCHANGED <<clientVars, applied>>

\* variant: the next part is taken up while the send is still in progress
PumpSendNotAwaited ==
  /\ pump_pc = "send_tw"
  /\ ~cancel_req
  /\ tw_sent' = Append(tw_sent, tw_msg)
  /\ PumpContinue(pump_parts)
  /\ tw_writes' = tw_writes + SendStarts(pump_parts)
  /\ UNCHANGED <<loopVars, main_pc, cancel_req, ai_open, ai_closes, handler_exc,
                 ai_leg>>
  /\ UNCHANGED <<clientVars, applied>>

\* `await websocket.send_json(...)` returns
PumpSendDone ==
  /\ pump_pc = "send_tw"
  /\ ~cancel_req
  /\ tw_sent' = Append(tw_sent, tw_msg)
  /\ PumpContinue(pump_parts)
  /\ tw_writes' = tw_writes - 1 + SendStarts(pump_parts)
  /\ UNCHANGED <<loopVars, main_pc, cancel_req, ai_open, ai_closes, handler_exc,
                 ai_leg>>
  /\ UNCHANGED <<clientVars, applied>>

\* `await websocket.send_json(...)` raises: caught by `except Exception`
PumpSendFails ==
  /\ pump_pc = "send_tw"
  /\ ~cancel_req
  /\ pump_pc' = "done"
  /\ tw_msg' = NoMsg
  /\ tw_writes' = tw_writes - 1
  /\ pump_parts' = <<>>
  /\ errors' = errors \cup {"Gemini receiver error"}
  /\ UNCHANGED <<loopVars, main_pc, cancel_req, downsample_state, ai_open,
                 ai_closes, tw_sent, handler_exc, ai_arrived, ai_leg>>
  /\ UNCHANGED <<clientVars, applied>>

\* session.receive() raises: caught by `except Exception`, the task returns
PumpStreamRaises ==
  /\ pump_pc = "recv"
  /\ ~cancel_req
  /\ pump_pc' = "done"
  /\ errors' = errors \cup {"Gemini receiver error"}
  /\ ai_leg' = "receive_error"
  /\ UNCHANGED <<loopVars, main_pc, cancel_req, downsample_state, tw_msg, tw_writes,
                 pump_parts, ai_open, ai_closes, tw_sent, handler_exc, ai_arrived>>
  /\ UNCHANGED <<clientVars, applied>>

\* session.receive() is exhausted (the AI peer ended the stream): the task returns
PumpStreamEnds ==
  /\ pump_pc = "recv"
  /\ ~cancel_req
  /\ pump_pc' = "done"
  /\ ai_leg' = "receive_end"
  /\ UNCHANGED <<loopVars, main_pc, cancel_req, downsample_state, tw_msg, tw_writes,
                 pump_parts, ai_open, ai_closes, tw_sent, errors, handler_exc,
                 ai_arrived>>
  /\ UNCHANGED <<clientVars, applied>>

\* CancelledError is raised in the task where it waits (or before it first
\* runs); `except asyncio.CancelledError` returns.  A send that was in progress
\* may or may not have reached the telephony peer.
PumpCancelled(delivered) ==
  /\ cancel_req
  /\ pump_pc \in {"created", "recv", "send_tw"}
  /\ delivered => pump_pc = "send_tw"
  /\ pump_pc' = "done"
  /\ tw_sent' = IF delivered THEN Append(tw_sent, tw_msg) ELSE tw_sent
  /\ tw_msg' = NoMsg
  /\ tw_writes' = IF pump_pc = "send_tw" THEN tw_writes - 1 ELSE tw_writes
  /\ pump_parts' = <<>>
  /\ UNCHANGED <<loopVars, main_pc, cancel_req, downsample_state, ai_open,
                 ai_closes, errors, handler_exc, ai_arrived, ai_leg>>
  /\ UNCHANGED <<clientVars, applied>>

(***************************************************************************)
(* The session.                                                            *)
(***************************************************************************)
Next ==
  \/ Connect
  \/ ConnectFails
  \/ \E name \in MessageNames : MainRecv(name)
  \/ MainDisconnect
  \/ MainSendDone
  \/ MainSendFails
  \/ MainAwaitTask
  \/ \E raises \in BOOLEAN : MainCloseAi(raises)
  \/ PumpStart
  \/ \E name \in ResponseNames : PumpRecv(name)
  \/ PumpSendDone
  \/ PumpSendFails
  \/ PumpStreamRaises
  \/ PumpStreamEnds
  \/ \E delivered \in BOOLEAN : PumpCancelled(delivered)

Spec == Init /\ [][Next]_vars

(***************************************************************************)
(* Scheduling.  The event loop runs every task that is ready: a sent       *)
(* cancellation is delivered, a finished task is observed by its awaiter,  *)
(* and a send or close in progress returns or raises.  Nothing obliges     *)
(* either peer to send anything.                                           *)
(***************************************************************************)
MainStep ==
  \/ MainSendDone
  \/ MainSendFails
  \/ MainAwaitTask
  \/ \E raises \in BOOLEAN : MainCloseAi(raises)

PumpStep ==
  \/ PumpStart
  \/ PumpSendDone
  \/ PumpSendFails
  \/ \E delivered \in BOOLEAN : PumpCancelled(delivered)

FairSpec == Spec /\ WF_vars(MainStep) /\ WF_vars(PumpStep)

(***************************************************************************)
(* Lifecycle of the session as the handler's position shows it.            *)
(***************************************************************************)
Closing == main_pc \in {"await_task", "exit"}
Closed == main_pc = "closed"
Running == main_pc \in {"recv", "send_ai"}
PumpRunning == pump_pc \in {"created", "recv", "send_tw"}

(***************************************************************************)
(* C1: once a stop message has been received, whatever came before it, the *)
(* session eventually is Closed and stays so with the AI-peer connection   *)
(* closed exactly once; the connection is never closed a second time.      *)
(***************************************************************************)
C1_StopReachesClosed ==
  /\ [](teardown = "stop" => ai_closes <= 1)
  /\ (teardown = "stop") ~> [](Closed /\ ~ai_open /\ ai_closes = 1)

\* stop as the first message: no start, no media
C1_Witness ==
  /\ teardown = "stop"
  /\ stream_sid = NoSid
  /\ media_log = <<>>
  /\ Closed
  /\ ai_closes = 1

(***************************************************************************)
(* C2: on every teardown path (stop, disconnect, error in the message      *)
(* loop) the pump task is cancelled before it is awaited, and the AI-peer  *)
(* connection is closed and the session Closed only after the task has     *)
(* terminated; the connection is never closed while the pump still runs.   *)
(***************************************************************************)
C2_PumpEndsBeforeClose ==
  /\ teardown # "none" => cancel_req
  /\ main_pc = "await_task" => cancel_req /\ teardown # "none"
  /\ (main_pc \in {"exit", "closed"} \/ ai_closes > 0) =>
       /\ teardown \in {"stop", "disconnect", "error"}
       /\ cancel_req
       /\ ~PumpRunning
       /\ pump_pc = "done"
  /\ PumpRunning => ai_open /\ ai_closes = 0

\* an error in the message loop while the pump had a send in progress: the
\* session is Closed with the pump ended by the cancellation
C2_Witness ==
  /\ Closed
  /\ teardown = "error"
  /\ pump_pc = "done"
  /\ ai_leg = "ok"
  /\ Len(ai_arrived) > Len(tw_sent)
  /\ "Gemini receiver error" \notin errors

(***************************************************************************)
(* The media messages owed for the audio chunks the pump has taken up: one *)
(* per well-formed chunk taken up while the stream id was known, tagged    *)
(* with that id and carrying the chunk's conversion.  Every well-formed    *)
(* chunk advances the resample state, sent or not.                         *)
(***************************************************************************)
WellFormed(data) == Len(data) % 2 = 0

RECURSIVE OwedFrom(_, _)
OwedFrom(arrived, dstate) ==
  IF arrived = <<>> THEN <<>>
  ELSE LET e == Head(arrived)
       IN IF ~WellFormed(e.data) THEN OwedFrom(Tail(arrived), dstate)
          ELSE LET r == Outgoing[e.data, dstate]
                   rest == OwedFrom(Tail(arrived), r[2])
               IN IF e.sid \in {NoSid, ""} THEN rest
                  ELSE <<[event |-> "media", streamSid |-> e.sid,
                          media |-> [payload |-> r[1]]]>> \o rest

Owed == OwedFrom(ai_arrived, NoState)

IsPrefix(s, t) == Len(s) <= Len(t) /\ s = SubSeq(t, 1, Len(s))

\* the chunks taken up in the step
NewlyArrived == SubSeq(ai_arrived', Len(ai_arrived) + 1, Len(ai_arrived'))

(***************************************************************************)
(* C3: a media message goes to the telephony peer for an AI audio chunk if *)
(* and only if the stream id is known (set and not empty) when the chunk   *)
(* is processed.  While the pump waits for a response every owed message   *)
(* has been sent and nothing else; while a send is in progress it is the   *)
(* last owed message.  A chunk taken up without a known id is dropped: no  *)
(* send starts for it, nothing is sent for it later, and the handler and   *)
(* the pump go on (a send that was in progress for an earlier chunk        *)
(* completes).                                                             *)
(***************************************************************************)
C3_SentIffSidKnown ==
  /\ [](/\ IsPrefix(tw_sent, Owed)
        /\ pump_pc = "recv" => tw_sent = Owed
        /\ pump_pc = "send_tw" => Owed = Append(tw_sent, tw_msg)
        /\ \A i \in 1..Len(tw_sent) : tw_sent[i].streamSid \notin {NoSid, ""})
  /\ [][(/\ ai_arrived' # ai_arrived
          /\ stream_sid \in {NoSid, ""}
          /\ \A i \in 1..Len(NewlyArrived) : WellFormed(NewlyArrived[i].data))
         => /\ pump_pc' = "recv"
            /\ tw_msg' = NoMsg
            /\ tw_sent' = IF pump_pc = "send_tw" THEN Append(tw_sent, tw_msg)
                          ELSE tw_sent
            /\ UNCHANGED <<main_pc, teardown, errors, ai_open>>]_vars

\* one chunk was dropped before start, the next was sent after it
C3_Witness ==
  /\ Len(ai_arrived) = 2
  /\ ai_arrived[1].sid = NoSid
  /\ ai_arrived[2].sid = "MZ1"
  /\ Len(tw_sent) = 1
  /\ tw_sent[1].streamSid = "MZ1"
  /\ Running

(***************************************************************************)
(* Steps of the message loop by the kind of message handled.               *)
(***************************************************************************)
\* a media message whose payload is absent, empty or decodes
RecvDecodableMedia ==
  \E n \in MediaNames \ {"media_bad_padding"} : MainRecv(n)

\* a media message whose payload base64.b64decode rejects
RecvUndecodableMedia == MainRecv("media_bad_padding")

\* a media message that pushes audio into the accumulator
RecvAudio == \E n \in AudioNames : MainRecv(n)

\* no start message has been handled
BeforeStart == stream_sid = NoSid /\ main_pc = "recv"

(***************************************************************************)
(* C4: a media message received before the start message is ignored: it    *)
(* is not forwarded to the AI peer, it changes neither the accumulator nor *)
(* the inbound resample state, and it does not end the session.  Stated    *)
(* for the media messages whose payload decodes.                           *)
(***************************************************************************)
C4_MediaBeforeStartIgnored ==
  [][(BeforeStart /\ RecvDecodableMedia)
       => /\ main_pc' = "recv"
          /\ UNCHANGED <<audio_buffer, upsample_state, ai_sent>>]_vars

\* audio received before any start message has reached the AI peer
C4_Witness ==
  /\ stream_sid = NoSid
  /\ teardown = "none"
  /\ ai_sent # <<>>

(***************************************************************************)
(* C5 as the specification states it: the push that reaches the threshold  *)
(* causes one send, and the bytes beyond the threshold stay in the         *)
(* accumulator for the next drain.                                         *)
(***************************************************************************)
C5_RemainderStays ==
  [][ai_sent' # ai_sent
       => /\ Len(ai_sent') = Len(ai_sent) + 1
          /\ audio_buffer' =
               SubSeq(audio_buffer, BUFFER_SIZE + 1, Len(audio_buffer))]_vars

(***************************************************************************)
(* C5: while the accumulated total is below BUFFER_SIZE nothing is sent to *)
(* the AI peer; the push that makes the total reach or cross BUFFER_SIZE   *)
(* starts exactly one send, which carries the whole accumulated content,   *)
(* bytes beyond the threshold included, and leaves the accumulator empty.  *)
(***************************************************************************)
C5_DrainSendsAll ==
  /\ [](main_pc = "send_ai" <=>
          (Len(audio_buffer) >= BUFFER_SIZE /\ teardown = "none"))
  /\ [][RecvAudio =>
          /\ ai_sent' = ai_sent
          /\ Len(audio_buffer') >= Len(audio_buffer)
          /\ (main_pc' = "send_ai") <=> (Len(audio_buffer') >= BUFFER_SIZE)]_vars
  /\ [][ai_sent' # ai_sent
          => /\ main_pc = "send_ai"
             /\ ai_sent' = Append(ai_sent, audio_buffer)
             /\ audio_buffer' = <<>>
             /\ main_pc' = "recv"]_vars

\* a push crossed the threshold by some bytes and the drain has been made
C5_Witness ==
  /\ Len(ai_sent) = 1
  /\ Len(ai_sent[1]) > BUFFER_SIZE
  /\ audio_buffer = <<>>
  /\ Len(media_log) = 2

(***************************************************************************)
(* C6: whenever the handler waits for the next telephony message the       *)
(* accumulator holds fewer than BUFFER_SIZE bytes; it holds BUFFER_SIZE or *)
(* more only while the send of its content is in progress, or after that   *)
(* send has raised and ended the message loop.                             *)
(***************************************************************************)
C6_BufferBelowThreshold ==
  /\ main_pc = "recv" => Len(audio_buffer) < BUFFER_SIZE
  /\ Len(audio_buffer) >= BUFFER_SIZE =>
       main_pc = "send_ai" \/ (ai_leg = "send_error" /\ teardown = "error")

\* the accumulator has been drained once and holds audio again
C6_Witness ==
  /\ main_pc = "recv"
  /\ Len(ai_sent) = 1
  /\ audio_buffer # <<>>
  /\ Len(audio_buffer) < BUFFER_SIZE

(***************************************************************************)
(* C7: a media message whose payload cannot be decoded is skipped on its   *)
(* own: the handler goes on to wait for the next message, and neither the  *)
(* accumulator nor the inbound resample state is changed by it.            *)
(***************************************************************************)
C7_UndecodableMediaSkipped ==
  [][RecvUndecodableMedia
       => /\ main_pc' = "recv"
          /\ teardown' = "none"
          /\ UNCHANGED <<audio_buffer, upsample_state, errors>>]_vars

(***************************************************************************)
(* C8: whenever the AI-peer leg raises an exception while the session is   *)
(* running, in the response stream read by the pump or in a send made by   *)
(* the inbound loop, the session goes on to Closed with no further message *)
(* from the telephony peer (FairSpec obliges the telephony peer to         *)
(* nothing).                                                               *)
(***************************************************************************)
C8_AiFailureClosesSession ==
  (ai_leg \in {"receive_error", "send_error"}) ~> Closed

\* the response stream has raised and the handler still waits for a message
C8_Witness ==
  /\ ai_leg = "receive_error"
  /\ pump_pc = "done"
  /\ main_pc = "recv"
  /\ teardown = "none"
  /\ ~cancel_req
  /\ ai_open

(***************************************************************************)
(* C9: an AI audio chunk of wrong length (an odd number of bytes) is       *)
(* discarded alone: the pump keeps running after it.                       *)
(***************************************************************************)
C9_OddChunkDiscardedAlone ==
  [][(/\ ai_arrived' # ai_arrived
      /\ ~WellFormed(ai_arrived'[Len(ai_arrived')].data))
       => pump_pc' \in {"recv", "send_tw"}]_vars

\* the pump has ended on an odd chunk, uncancelled, while the session runs
C9_Witness ==
  /\ ai_arrived # <<>>
  /\ ~WellFormed(ai_arrived[Len(ai_arrived)].data)
  /\ pump_pc = "done"
  /\ ~cancel_req
  /\ Running
  /\ "Gemini receiver error" \in errors

(***************************************************************************)
(* The inbound audio as converted chunk by chunk, in arrival order, with   *)
(* the resample state carried from each chunk to the next.                 *)
(***************************************************************************)
ChunkOf(name) == Decoded[Message(name).media.payload].chunk

RECURSIVE ConvertedFrom(_, _)
ConvertedFrom(log, ustate) ==
  IF log = <<>> THEN <<>>
  ELSE LET r == Incoming[ChunkOf(Head(log)), ustate]
       IN r[1] \o ConvertedFrom(Tail(log), r[2])

ConvertedInbound == ConvertedFrom(media_log, NoState)

RECURSIVE Concat(_)
Concat(frames) ==
  IF frames = <<>> THEN <<>> ELSE Head(frames) \o Concat(Tail(frames))

(***************************************************************************)
(* C10: within each direction audio is forwarded in arrival order under    *)
(* every interleaving of the loop and the pump.  The frames sent to the AI *)
(* peer, concatenated, are a prefix of the converted inbound chunks,       *)
(* concatenated in arrival order; what has not been sent is the            *)
(* accumulator.  The media messages sent to the telephony peer are a       *)
(* prefix of the owed messages in the arrival order of their chunks, and   *)
(* grow only at the end, by the message whose send was in progress.        *)
(***************************************************************************)
C10_ForwardedInOrder ==
  /\ [](/\ IsPrefix(Concat(ai_sent), ConvertedInbound)
        /\ main_pc \in {"recv", "send_ai"} =>
             Concat(ai_sent) \o audio_buffer = ConvertedInbound
        /\ IsPrefix(tw_sent, Owed))
  /\ [][/\ IsPrefix(ai_sent, ai_sent')
        /\ Len(ai_sent') <= Len(ai_sent) + 1
        /\ tw_sent' # tw_sent => tw_sent' = Append(tw_sent, tw_msg)]_vars

\* both directions have forwarded audio, the inbound one twice
C10_Witness ==
  /\ Len(ai_sent) = 2
  /\ Len(tw_sent) = 2
  /\ tw_sent[1] # tw_sent[2]
  /\ audio_buffer = <<>>

(***************************************************************************)
(* C11: at no point are two sends to the telephony connection in progress  *)
(* at the same time.  The pump is the connection's only writer (no step of *)
(* the message loop or of the teardown begins a send to it), and a send    *)
(* begins only when none is in progress.                                   *)
(***************************************************************************)
C11_SingleTelephonyWriter ==
  /\ [](tw_writes \in {0, 1})
  /\ [](tw_writes = 1 <=> pump_pc = "send_tw")
  /\ [][tw_msg' # NoMsg /\ (tw_msg' # tw_msg \/ tw_sent' # tw_sent)
          => tw_writes' = 1 /\ tw_writes - Len(tw_sent') + Len(tw_sent) = 0]_vars
  /\ [][main_pc' # main_pc => UNCHANGED <<tw_writes, tw_msg, tw_sent>>]_vars

\* a second send is in progress after the first has completed, while the
\* message loop is itself in the middle of a send to the AI peer
C11_Witness ==
  /\ tw_writes = 1
  /\ Len(tw_sent) = 1
  /\ pump_parts = <<>>
  /\ main_pc = "send_ai"

(***************************************************************************)
(* C12: neither pump can block the other.  Whatever the message loop is    *)
(* waiting for, a pump that has not been cancelled can take up a response  *)
(* and can complete the send it has in progress; whatever the pump is      *)
(* waiting for, the message loop can handle media and can complete the     *)
(* send it has in progress.  Under fair scheduling a send in progress to   *)
(* the telephony peer is delivered unless it raises or teardown starts     *)
(* first, and a send in progress to the AI peer is delivered unless it     *)
(* raises.                                                                 *)
(***************************************************************************)
C12_PumpsIndependent ==
  /\ [](pump_pc = "send_tw" /\ ~cancel_req => ENABLED PumpSendDone)
  /\ [](pump_pc = "recv" /\ ~cancel_req => ENABLED PumpRecv("setup"))
  /\ [](pump_pc = "recv" /\ ~cancel_req /\ Len(ai_arrived) < MaxChunks
          => ENABLED PumpRecv("audio_A"))
  /\ [](main_pc = "send_ai" => ENABLED MainSendDone)
  /\ [](main_pc = "recv" => ENABLED MainRecv("mark"))
  /\ [](main_pc = "recv" /\ Len(media_log) < MaxMedia
          => ENABLED MainRecv("media_small"))
  /\ \A k \in 0..MaxChunks :
       (pump_pc = "send_tw" /\ Len(tw_sent) = k)
         ~> (Len(tw_sent) > k \/ cancel_req \/ "Gemini receiver error" \in errors)
  /\ \A k \in 0..MaxMedia :
       (main_pc = "send_ai" /\ Len(ai_sent) = k)
         ~> (Len(ai_sent) > k \/ ai_leg = "send_error")

\* with the stream id known, the pump has delivered a message and waits for
\* the next response, the loop has delivered a frame and waits for the next
\* message, and neither has failed
C12_Witness ==
  /\ main_pc = "recv"
  /\ pump_pc = "recv"
  /\ stream_sid = "MZ1"
  /\ Len(tw_sent) >= 1
  /\ Len(ai_sent) >= 1
  /\ errors = {}

(***************************************************************************)
(* C13: the AI-peer connection is opened and the pump started only when    *)
(* the start message has been received; while the session still awaits    *)
(* start no AI-peer connection is open and no pump is running.             *)
(***************************************************************************)
C13_AiOpenedOnStart ==
  (stream_sid = NoSid /\ teardown = "none") => (~ai_open /\ ~PumpRunning)

\* no start has been received, the connection is open and the pump has
\* already taken up audio from the AI peer
C13_Witness ==
  /\ BeforeStart
  /\ ai_open
  /\ pump_pc = "recv"
  /\ ai_arrived # <<>>

(***************************************************************************)
(* C14: if opening the AI-peer connection fails the session never becomes  *)
(* Active: no pump is started, no telephony message is processed, no audio *)
(* is forwarded in either direction, the failure leaves the handler, and   *)
(* no second connection attempt is made.                                   *)
(***************************************************************************)
C14_ConnectFailureEndsSession ==
  \* the failure is raised by the one attempt, which ends the handler
  /\ [][handler_exc' = "connect" /\ handler_exc # "connect"
          => main_pc = "connect" /\ main_pc' = "failed"]_vars
  \* nothing runs after it: no retry, no pump, no message, no audio
  /\ [][handler_exc # "connect"]_vars
  /\ [](main_pc = "failed" =>
          /\ handler_exc = "connect"
          /\ ~ENABLED Next
          /\ ~ai_open /\ ai_closes = 0
          /\ pump_pc = "none" /\ ~cancel_req
          /\ stream_sid = NoSid /\ teardown = "none" /\ media_log = <<>>
          /\ audio_buffer = <<>> /\ ai_sent = <<>>
          /\ ai_arrived = <<>> /\ tw_writes = 0 /\ tw_sent = <<>>
          /\ errors = {})
  \* a session that did connect never fails to connect later
  /\ [](main_pc = "failed" <=> handler_exc = "connect")

C14_Witness == main_pc = "failed" /\ handler_exc = "connect" /\ ~ai_open

(***************************************************************************)
(* C15: a disconnect of the telephony peer, whenever the loop observes it, *)
(* tears the session down exactly like stop: the pump is cancelled and     *)
(* awaited, the AI-peer connection is closed and Closed is reached; and it *)
(* is normal termination: no error diagnostic is recorded for it.          *)
(***************************************************************************)
\* the loop is left for the teardown and nothing else changes
TornDown(why) ==
  /\ main_pc = "recv" /\ main_pc' = "await_task"
  /\ cancel_req'
  /\ teardown' = why
  /\ UNCHANGED <<pumpVars, stream_sid, audio_buffer, upsample_state, ai_open,
                 ai_closes, ai_sent, errors, handler_exc, media_log, ai_leg>>

C15_DisconnectTearsDownLikeStop ==
  /\ [][MainDisconnect => TornDown("disconnect")]_vars
  /\ [][MainRecv("stop") => TornDown("stop")]_vars
  /\ [](main_pc = "recv" => ENABLED MainDisconnect)
  \* no diagnostic at the disconnect or after it
  /\ [](teardown = "disconnect" => "Media stream error" \notin errors)
  /\ [][teardown' = "disconnect" => errors' = errors]_vars
  \* the pump is awaited before the close, and Closed is reached for good
  /\ [](teardown = "disconnect" /\ main_pc \in {"exit", "closed"} => pump_pc = "done")
  /\ (teardown = "disconnect")
        ~> [](Closed /\ ~ai_open /\ ai_closes = 1 /\ pump_pc = "done")

\* closed after a disconnect that came before any start message, while the
\* pump had taken up audio
C15_Witness ==
  /\ Closed
  /\ teardown = "disconnect"
  /\ stream_sid = NoSid
  /\ ai_arrived # <<>>
  /\ ai_closes = 1
  /\ errors = {}

(***************************************************************************)
(* The resample state each direction has after its conversions so far,     *)
(* every conversion being given the state the one before it returned.      *)
(***************************************************************************)
RECURSIVE UpsampleFrom(_, _)
UpsampleFrom(log, ustate) ==
  IF log = <<>> THEN ustate
  ELSE UpsampleFrom(Tail(log), Incoming[ChunkOf(Head(log)), ustate][2])

RECURSIVE DownsampleFrom(_, _)
DownsampleFrom(arrived, dstate) ==
  IF arrived = <<>> THEN dstate
  ELSE LET e == Head(arrived)
       IN IF ~WellFormed(e.data) THEN DownsampleFrom(Tail(arrived), dstate)
          ELSE DownsampleFrom(Tail(arrived), Outgoing[e.data, dstate][2])

\* the state a conversion of no audio returns for the empty state
EmptyConverted == Incoming[<<>>, NoState][2]

(***************************************************************************)
(* C16: each direction's resample state is threaded only through that      *)
(* direction's own consecutive conversions: it starts empty, the next      *)
(* conversion of a direction is given exactly the non-empty state the      *)
(* previous one of that direction returned, and the other direction never  *)
(* reads or changes it.                                                    *)
(***************************************************************************)
C16_StateThreadedPerDirection ==
  \* empty until the direction's first conversion, non-empty after it
  /\ [](media_log = <<>> => upsample_state \in {NoState, EmptyConverted})
  /\ [](media_log # <<>> => upsample_state # NoState)
  /\ [](downsample_state = NoState
          <=> \A i \in 1..Len(ai_arrived) : ~WellFormed(ai_arrived[i].data))
  \* each state is the one its own direction's chunks thread, in order
  /\ [](media_log # <<>> => upsample_state = UpsampleFrom(media_log, NoState))
  /\ [](downsample_state = DownsampleFrom(ai_arrived, NoState))
  \* an inbound conversion is given the current inbound state and keeps
  \* the state it returns
  /\ [][media_log' # media_log =>
          LET r == Incoming[ChunkOf(media_log'[Len(media_log')]), upsample_state]
          IN /\ audio_buffer' = audio_buffer \o r[1]
             /\ upsample_state' = r[2]
             /\ r[2] # NoState]_vars
  \* neither direction changes the other's state
  /\ [][upsample_state' # upsample_state
          => UNCHANGED <<downsample_state, ai_arrived, pump_pc>>]_vars
  /\ [][downsample_state' # downsample_state
          => UNCHANGED <<upsample_state, media_log, audio_buffer, main_pc>>]_vars

\* the second conversion of each direction has been made
C16_Witness ==
  /\ Len(media_log) = 2
  /\ Len(ai_arrived) = 2
  /\ \A i \in 1..2 : WellFormed(ai_arrived[i].data)
  /\ upsample_state # NoState
  /\ downsample_state # NoState
  /\ upsample_state # downsample_state
  /\ upsample_state # UpsampleFrom(SubSeq(media_log, 1, 1), NoState)

(***************************************************************************)
(* C17: once teardown has begun (stop received, telephony disconnected, or *)
(* an error ended the message loop) the session forwards nothing more: no  *)
(* later telephony message is processed, no new frame is sent to the AI    *)
(* peer, and no new media message starts being sent to the telephony peer. *)
(* Only a send that was already in progress may still reach the peer.      *)
(***************************************************************************)
C17_NothingForwardedAfterTeardown ==
  /\ [](teardown # "none" => cancel_req /\ main_pc \notin {"recv", "send_ai"})
  /\ [](teardown # "none" => \A n \in MessageNames : ~ENABLED MainRecv(n))
  /\ [](teardown # "none" => ~ENABLED MainSendDone
                             /\ \A n \in ResponseNames : ~ENABLED PumpRecv(n))
  /\ [][teardown # "none" =>
          \* no telephony message is processed, no frame is sent
          /\ UNCHANGED <<teardown, stream_sid, media_log, audio_buffer,
                         upsample_state, ai_sent>>
          \* no chunk of the AI peer is taken up, no send is begun
          /\ UNCHANGED <<ai_arrived, downsample_state>>
          /\ tw_writes' <= tw_writes
          /\ tw_msg' \in {tw_msg, NoMsg}
          \* at most the send in progress completes
          /\ tw_sent' # tw_sent =>
                /\ tw_msg # NoMsg
                /\ tw_sent' = Append(tw_sent, tw_msg)
                /\ tw_msg' = NoMsg /\ tw_writes' = 0]_vars

\* the session has ended with converted audio that was never forwarded, in
\* both directions
C17_Witness ==
  /\ teardown # "none"
  /\ Closed
  /\ audio_buffer # <<>>
  /\ Len(tw_sent) < Len(Owed)
  /\ ai_leg = "ok"
  /\ "Gemini receiver error" \notin errors

(***************************************************************************)
(* C18: a connected message changes nothing: in whatever state it is       *)
(* received, the stream id, the lifecycle state, the frame accumulator and *)
(* both resample states are unchanged, and nothing is sent to either peer. *)
(***************************************************************************)
C18_ConnectedChangesNothing ==
  /\ [][MainRecv("connected") =>
          /\ UNCHANGED <<stream_sid, main_pc, teardown, cancel_req>>
          /\ UNCHANGED <<audio_buffer, upsample_state, downsample_state>>
          /\ UNCHANGED <<ai_sent, tw_sent, tw_msg, tw_writes>>
          /\ UNCHANGED vars]_vars
  \* it is taken whenever the loop waits for a message
  /\ [](main_pc = "recv" <=> ENABLED MainRecv("connected"))

\* the message can arrive in the middle of a call: after start, with audio
\* accumulated and both directions converted
C18_Witness ==
  /\ ENABLED MainRecv("connected")
  /\ stream_sid = "MZ1"
  /\ audio_buffer # <<>>
  /\ upsample_state # NoState
  /\ downsample_state # NoState
  /\ tw_writes = 1

(***************************************************************************)
(* C19: for every sequence of inbound media payloads, the accumulator      *)
(* after each message and every frame sent to the AI peer have an even     *)
(* number of bytes (whole 16-bit samples); the inbound path never produces *)
(* a PCM buffer of odd length.                                             *)
(***************************************************************************)
C19_InboundPcmEven ==
  /\ \A c \in MediaChunks, st \in UpsampleStates : Len(Incoming[c, st][1]) % 2 = 0
  /\ Len(audio_buffer) % 2 = 0
  /\ \A i \in 1..Len(ai_sent) : Len(ai_sent[i]) % 2 = 0

\* a frame has been sent and audio of an odd number of mu-law bytes has
\* been accumulated after it
C19_Witness ==
  /\ Len(ai_sent) = 1
  /\ audio_buffer # <<>>
  /\ media_log = <<"media_big", "media_small">>
  /\ Len(ChunkOf("media_small")) % 2 = 1

(***************************************************************************)
(* GeminiLiveClient: connect() and close().  Each call runs up to its      *)
(* `await` in one step and finishes in a second step when the provider's   *)
(* __aenter__() or __aexit__() ends; other calls on the same client may    *)
(* run in between.                                                          *)
(***************************************************************************)
\* calls made on one client
MaxCalls == 4

\* a call: pc is "aenter" or "aexit" while it is suspended in the provider
\* and "done" when it has returned or raised; cm is the context manager it
\* awaits; alone tells that no other call was in progress when it was made
Call(op, pc, cm, raised, warned, alone) ==
  [op |-> op, pc |-> pc, cm |-> cm, raised |-> raised, warned |-> warned,
   alone |-> alone]

AllDone == \A i \in 1..Len(calls) : calls[i].pc = "done"

\* connect() up to `await self._context_manager.__aenter__()`: returns at
\* once when connected; otherwise makes the context manager, keeps it and
\* starts to enter it.  An exception of genai.Client() leaves connect().
ClientConnect(outcome) ==
  /\ Len(calls) < MaxCalls
  /\ IF connected
     THEN /\ outcome = "ok"
          /\ calls' = Append(calls, Call("connect", "done", NoHandle, FALSE,
                                         FALSE, AllDone))
          /\ UNCHANGED <<context_manager, cms>>
     ELSE IF outcome = "client_raises"
     THEN /\ calls' = Append(calls, Call("connect", "done", NoHandle, TRUE,
                                         FALSE, AllDone))
          /\ UNCHANGED <<context_manager, cms>>
     ELSE /\ cms' = cms + 1
          /\ context_manager' = cms + 1
          /\ calls' = Append(calls, Call("connect", "aenter", cms + 1, FALSE,
                                         FALSE, AllDone))
  /\ UNCHANGED <<session, connected, entered, exits>>
  /\ UNCHANGED <<main_pc, pumpVars, loopVars, cancel_req, ai_open, ai_closes,
                 errors, handler_exc, ai_leg, applied>>

\* connect() from the end of `await __aenter__()`: the session it returned
\* is kept and _connected set; an exception of it leaves connect()
ClientAenterEnds(i, outcome) ==
  /\ i \in 1..Len(calls)
  /\ calls[i].pc = "aenter"
  /\ IF outcome = "ok"
     THEN /\ session' = calls[i].cm
          /\ connected' = TRUE
          /\ entered' = entered \cup {calls[i].cm}
          /\ calls' = [calls EXCEPT ![i].pc = "done"]
     ELSE /\ calls' = [calls EXCEPT ![i].pc = "done", ![i].raised = TRUE]
          /\ UNCHANGED <<session, connected, entered>>
  /\ UNCHANGED <<context_manager, cms, exits>>
  /\ UNCHANGED <<main_pc, pumpVars, loopVars, cancel_req, ai_open, ai_closes,
                 errors, handler_exc, ai_leg, applied>>

\* close() up to `await self._context_manager.__aexit__(None, None, None)`:
\* with a context manager kept its __aexit__() is called; with none,
\* _connected becomes False and close() returns
ClientClose ==
  /\ Len(calls) < MaxCalls
  /\ IF context_manager # NoHandle
     THEN /\ exits' = Append(exits, context_manager)
          /\ calls' = Append(calls, Call("close", "aexit", context_manager,
                                         FALSE, FALSE, AllDone))
          /\ UNCHANGED connected
     ELSE /\ connected' = FALSE
          /\ calls' = Append(calls, Call("close", "done", NoHandle, FALSE,
                                         FALSE, AllDone))
          /\ UNCHANGED exits
  /\ UNCHANGED <<context_manager, session, cms, entered>>
  /\ UNCHANGED <<main_pc, pumpVars, loopVars, cancel_req, ai_open, ai_closes,
                 errors, handler_exc, ai_leg, applied>>

\* close() from the end of `await __aexit__()`: an Exception of it is logged
\* as a warning and dropped, both handles are cleared and _connected becomes
\* False; a CancelledError is not caught and leaves close() with the
\* attributes as they are
ClientAexitEnds(i, outcome) ==
  /\ i \in 1..Len(calls)
  /\ calls[i].pc = "aexit"
  /\ IF outcome = "cancelled"
     THEN /\ calls' = [calls EXCEPT ![i].pc = "done", ![i].raised = TRUE]
          /\ UNCHANGED <<context_manager, session, connected>>
     ELSE /\ context_manager' = NoHandle
          /\ session' = NoHandle
          /\ connected' = FALSE
          /\ calls' = [calls EXCEPT ![i].pc = "done",
                                    ![i].warned = (outcome = "raises")]
  /\ UNCHANGED <<cms, entered, exits>>
  /\ UNCHANGED <<main_pc, pumpVars, loopVars, cancel_req, ai_open, ai_closes,
                 errors, handler_exc, ai_leg, applied>>

\* genai.Client() returns or raises; `await __aenter__()` returns or raises;
\* `await __aexit__()` returns, raises an Exception, or raises
\* asyncio.CancelledError, which is no Exception
ClientNext ==
  \/ \E outcome \in {"ok", "client_raises"} : ClientConnect(outcome)
  \/ \E i \in 1..MaxCalls, outcome \in {"ok", "raises"} :
       ClientAenterEnds(i, outcome)
  \/ ClientClose
  \/ \E i \in 1..MaxCalls, outcome \in {"ok", "raises", "cancelled"} :
       ClientAexitEnds(i, outcome)

ClientSpec == Init /\ [][ClientNext]_vars

\* the calls were made one after the other: none while another was in
\* progress
Consecutive == \A i \in 1..Len(calls) : calls[i].alone

\* the last call made is a close() that has ended
ClosedLast ==
  calls # <<>> /\ calls[Len(calls)].op = "close" /\ calls[Len(calls)].pc = "done"

(***************************************************************************)
(* C20: close() is idempotent: for any number of consecutive close()       *)
(* calls, in any client state (never connected, connected, already         *)
(* closed), the provider session is exited at most once, no call raises,   *)
(* and the client ends not connected with no session handle.               *)
(***************************************************************************)
C20_CloseIdempotent ==
  Consecutive =>
    \* no context manager is exited twice
    /\ \A i, j \in 1..Len(exits) : exits[i] = exits[j] => i = j
    \* no close() raises
    /\ \A i \in 1..Len(calls) : calls[i].op = "close" => ~calls[i].raised
    \* after a close() the client is closed
    /\ ClosedLast => ~connected /\ session = NoHandle /\ context_manager = NoHandle

\* connect(), a close() whose __aexit__() is cancelled, and a second close():
\* the same context manager has been exited twice
C20_Witness ==
  /\ Consecutive
  /\ Len(calls) = 3
  /\ calls[1].op = "connect" /\ ~calls[1].raised
  /\ calls[2].op = "close" /\ calls[2].raised
  /\ calls[3].op = "close" /\ calls[3].pc = "done" /\ ~calls[3].raised
  /\ entered = {1}
  /\ exits = <<1, 1>>
  /\ ~connected /\ session = NoHandle /\ context_manager = NoHandle

(***************************************************************************)
(* C21: an error raised while closing the AI-peer connection during        *)
(* teardown is swallowed: it leaves neither close() nor the session        *)
(* handler, and the client or session still ends closed (client: not       *)
(* connected, handles cleared; session: Closed with the connection shut).  *)
(***************************************************************************)
C21_CloseErrorSwallowed ==
  /\ handler_exc # "close"
  /\ Closed => ~ai_open
  /\ \A i \in 1..Len(calls) : calls[i].op = "close" => ~calls[i].raised
  /\ (Consecutive /\ ClosedLast /\ ~calls[Len(calls)].raised)
       => ~connected /\ session = NoHandle /\ context_manager = NoHandle

\* the session is Closed after a teardown by stop, and the error of the
\* close has left the handler
C21_Witness ==
  /\ Closed
  /\ teardown = "stop"
  /\ ~ai_open
  /\ ai_closes = 1
  /\ handler_exc = "close"

(***************************************************************************)
(* The conversion functions on their own: one function is applied to one   *)
(* input drawn from the sets below.                                        *)
(***************************************************************************)
\* longest array of samples, or chunk of bytes, drawn as an input
MaxSamples == 12
\* chunks converted one after the other with the state threaded
MaxThread == 2

\* 240 samples are 10 ms at 24 kHz, 160 mu-law bytes are 20 ms at 8 kHz
FrameSamples == 240
SilenceBytes == 160

Samples == -32768..32767
Codes == 0..255
Rates == {TelephonyRate, AiInputRate, AiOutputRate}

Zeros(n) == [i \in 1..n |-> 0]
Ramp(n) == [i \in 1..n |-> 1000 * i - 3000]
Silence(n) == [i \in 1..n |-> 255]

AudioArrays ==
  {Zeros(n) : n \in 0..MaxSamples} \cup {Ramp(n) : n \in 1..MaxSamples}
    \cup {Zeros(FrameSamples)}

SilentChunks == {Silence(n) : n \in 0..MaxSamples} \cup {Silence(SilenceBytes)}

InboundPayloads == {B64Encode(c) : c \in SilentChunks} \cup {PayloadSmall}

ThreadChunks ==
  {SamplesToBytes(Zeros(n)) : n \in 0..6}
    \cup {SamplesToBytes(Zeros(FrameSamples)), SamplesToBytes(Ramp(9)), ChunkA, ChunkB}

ChunkLists == UNION {[1..k -> ThreadChunks] : k \in 1..MaxThread}

sessionVars == <<main_pc, pumpVars, loopVars, cancel_req, ai_open, ai_closes,
                 errors, handler_exc, ai_leg>>

\* process_outgoing_audio on each chunk in turn, every call given the state
\* the call before it returned: the results, in order
RECURSIVE ThreadOutgoing(_, _)
ThreadOutgoing(chunks, state) ==
  IF chunks = <<>> THEN <<>>
  ELSE LET r == process_outgoing_audio(Head(chunks), state)
       IN <<r>> \o ThreadOutgoing(Tail(chunks), r[2])

ApplyEncode ==
  /\ applied = NotApplied
  /\ \E x \in Samples :
       applied' = [fn |-> "pcm16_to_ulaw", pcm16 |-> <<x>>,
                   out |-> pcm16_to_ulaw(<<x>>)]
  /\ UNCHANGED <<sessionVars, clientVars>>

ApplyDecode ==
  /\ applied = NotApplied
  /\ \E b \in Codes :
       applied' = [fn |-> "ulaw_to_pcm16", ulaw_bytes |-> <<b>>,
                   out |-> ulaw_to_pcm16(<<b>>)]
  /\ UNCHANGED <<sessionVars, clientVars>>

ApplyResample ==
  /\ applied = NotApplied
  /\ \E audio \in AudioArrays, from_rate \in Rates, to_rate \in Rates,
        fused \in BOOLEAN :
       applied' = [fn |-> "resample", audio |-> audio, from_rate |-> from_rate,
                   to_rate |-> to_rate,
                   raised |-> resample_raises(audio, from_rate, to_rate),
                   out |-> IF resample_raises(audio, from_rate, to_rate) THEN <<>>
                           ELSE resample(audio, from_rate, to_rate, fused)]
  /\ UNCHANGED <<sessionVars, clientVars>>

ApplyInbound ==
  /\ applied = NotApplied
  /\ \E payload \in InboundPayloads, target_rate \in Rates, fused \in BOOLEAN :
       applied' = [fn |-> "twilio_audio_to_pcm16", payload |-> payload,
                   target_rate |-> target_rate,
                   raised |-> twilio_audio_to_pcm16_raises(payload, target_rate),
                   out |-> IF twilio_audio_to_pcm16_raises(payload, target_rate)
                           THEN <<>>
                           ELSE twilio_audio_to_pcm16(payload, target_rate, fused)]
  /\ UNCHANGED <<sessionVars, clientVars>>

ApplyOutbound ==
  /\ applied = NotApplied
  /\ \E pcm16 \in AudioArrays, source_rate \in Rates, fused \in BOOLEAN :
       applied' = [fn |-> "pcm16_to_twilio_audio", pcm16 |-> pcm16,
                   source_rate |-> source_rate,
                   raised |-> pcm16_to_twilio_audio_raises(pcm16, source_rate),
                   out |-> IF pcm16_to_twilio_audio_raises(pcm16, source_rate)
                           THEN <<>>
                           ELSE pcm16_to_twilio_audio(pcm16, source_rate, fused)]
  /\ UNCHANGED <<sessionVars, clientVars>>

\* mu-law chunks of the telephony peer: silence of every length, and chunks
\* that end in a loud sample (0x80, 0x00), in a quiet one (0xFE) and in
\* silence after a loud one
InboundChunks ==
  SilentChunks \cup {<<128>>, <<0>>, <<254>>, <<255, 128>>, <<128, 255>>}

\* process_incoming_audio on each chunk in turn, every call given the state
\* the call before it returned, as the message loop does: the results, in
\* order
RECURSIVE ThreadIncoming(_, _)
ThreadIncoming(chunks, state) ==
  IF chunks = <<>> THEN <<>>
  ELSE LET r == process_incoming_audio(Head(chunks), state)
       IN <<r>> \o ThreadIncoming(Tail(chunks), r[2])

ApplyIncoming ==
  /\ applied = NotApplied
  /\ \E chunks \in UNION {[1..k -> InboundChunks] : k \in 1..MaxThread} :
       applied' = [fn |-> "process_incoming_audio", chunks |-> chunks,
                   out |-> ThreadIncoming(chunks, NoState)]
  /\ UNCHANGED <<sessionVars, clientVars>>

ApplyOutgoing ==
  /\ applied = NotApplied
  /\ \E chunks \in ChunkLists :
       applied' = [fn |-> "process_outgoing_audio", chunks |-> chunks,
                   out |-> ThreadOutgoing(chunks, NoState)]
  /\ UNCHANGED <<sessionVars, clientVars>>

AudioNext ==
  \/ ApplyEncode
  \/ ApplyDecode
  \/ ApplyResample
  \/ ApplyInbound
  \/ ApplyOutbound
  \/ ApplyIncoming
  \/ ApplyOutgoing

AudioSpec == Init /\ [][AudioNext]_vars

\* the number of 16-bit samples of a chunk of PCM bytes
SampleCount(pcm) == Len(pcm) \div 2

(***************************************************************************)
(* C22: downsampling N PCM16 samples from 24000 Hz to 8000 Hz, N being a   *)
(* positive multiple of 3, yields exactly N/3 samples, so the outbound     *)
(* media payload for such a chunk carries exactly N/3 mu-law bytes (240    *)
(* samples give 80 bytes), from the empty state and with the state         *)
(* threaded from earlier chunks of any length.                             *)
(***************************************************************************)
C22_DownsampleRatio ==
  /\ applied.fn = "process_outgoing_audio" =>
       \A k \in 1..Len(applied.chunks) :
         LET n == SampleCount(applied.chunks[k])
         IN n % 3 = 0 =>
              /\ ~B64DecodeRaises(applied.out[k][1])
              /\ Len(B64Decode(applied.out[k][1])) = n \div 3
  /\ (/\ applied.fn = "resample"
      /\ applied.from_rate = AiOutputRate /\ applied.to_rate = TelephonyRate
      /\ Len(applied.audio) % 3 = 0 /\ Len(applied.audio) > 0)
       => ~applied.raised /\ Len(applied.out) * 3 = Len(applied.audio)
  /\ (/\ applied.fn = "pcm16_to_twilio_audio"
      /\ applied.source_rate = AiOutputRate
      /\ Len(applied.pcm16) % 3 = 0 /\ Len(applied.pcm16) > 0)
       => ~applied.raised /\ Len(B64Decode(applied.out)) * 3 = Len(applied.pcm16)

\* 240 samples converted after a chunk of 4 samples, which leaves the
\* resampler between two output samples: 80 bytes
C22_Witness ==
  /\ applied.fn = "process_outgoing_audio"
  /\ Len(applied.chunks) = 2
  /\ SampleCount(applied.chunks[1]) = 4
  /\ SampleCount(applied.chunks[2]) = FrameSamples
  /\ applied.out[1][2] # InitialRateState(1)
  /\ Len(B64Decode(applied.out[2][1])) = 80

\* round(a / b) for a >= 0 and b > 0: the nearest integer, a tie going to
\* the even one
RoundDiv(a, b) ==
  LET q == a \div b
      r == a % b
  IN IF 2 * r < b THEN q
     ELSE IF 2 * r > b THEN q + 1
     ELSE IF q % 2 = 0 THEN q ELSE q + 1

(***************************************************************************)
(* C23: for every input length n and every pair of rates (r1, r2) among    *)
(* 8000, 16000 and 24000, resample returns exactly round(n * r2 / r1)      *)
(* samples; when r1 = r2 it returns the input unchanged.                   *)
(***************************************************************************)
C23_ResampleLength ==
  applied.fn = "resample" =>
    /\ ~applied.raised
    /\ Len(applied.out)
         = RoundDiv(Len(applied.audio) * applied.to_rate, applied.from_rate)
    /\ applied.from_rate = applied.to_rate => applied.out = applied.audio

\* two samples at 24000 Hz resampled to 8000 Hz: round(2/3) is 1, and no
\* sample is returned
C23_Witness ==
  /\ applied.fn = "resample"
  /\ applied.audio = Ramp(2)
  /\ applied.from_rate = AiOutputRate /\ applied.to_rate = TelephonyRate
  /\ ~applied.raised
  /\ applied.out = <<>>

(***************************************************************************)
(* C24: the mu-law encoder is the exact inverse of the decode table: for   *)
(* every code b in 0..255, encoding the sample b decodes to gives b back,  *)
(* except for the second zero code 0x7F, whose sample 0 encodes to 0xFF;   *)
(* so decode(encode(decode(b))) = decode(b) for every b.                   *)
(***************************************************************************)
C24_EncodeInvertsDecode ==
  applied.fn = "ulaw_to_pcm16" =>
    LET b == applied.ulaw_bytes[1]
    IN /\ pcm16_to_ulaw(applied.out) = <<IF b = 127 THEN 255 ELSE b>>
       /\ ulaw_to_pcm16(pcm16_to_ulaw(applied.out)) = applied.out

\* the code 0x7F decodes to 0, which encodes to 0xFF
C24_Witness ==
  /\ applied.fn = "ulaw_to_pcm16"
  /\ applied.ulaw_bytes = <<127>>
  /\ applied.out = <<0>>
  /\ pcm16_to_ulaw(applied.out) = <<255>>

(***************************************************************************)
(* C25: for every 16-bit sample x from -32768 to 32767,                    *)
(* decodeUlaw(encodeUlaw(x)) never has the opposite sign of x and differs  *)
(* from x by at most 1024; the biased magnitude |x| + 132 is clipped to    *)
(* 0..32767 without wrapping in 16-bit arithmetic, so the extreme samples  *)
(* map to the codes of largest magnitude.                                  *)
(***************************************************************************)
C25_RoundTripBounded ==
  applied.fn = "pcm16_to_ulaw" =>
    LET x == applied.pcm16[1]
        y == ulaw_to_pcm16(applied.out)[1]
    IN /\ x > 0 => y >= 0
       /\ x < 0 => y <= 0
       /\ Abs(x - y) <= 1024
       /\ x = 32767 => applied.out = <<128>>
       /\ x = -32768 => applied.out = <<0>>

\* the largest sample: the sum with the bias wraps, is clipped to 0, and
\* the code decodes to about half the sample
C25_Witness ==
  /\ applied.fn = "pcm16_to_ulaw"
  /\ applied.pcm16 = <<32767>>
  /\ applied.out = <<143>>
  /\ ulaw_to_pcm16(applied.out) = <<16764>>

\* the chunk is not empty and holds only the code 0xFF
OnlySilence(chunk) == chunk # <<>> /\ \A i \in 1..Len(chunk) : chunk[i] = 255

(***************************************************************************)
(* C26, as stated: silence is preserved by the codec: the byte 0xFF        *)
(* decodes to the sample 0, the sample 0 encodes to a code that decodes to *)
(* a magnitude below 100, and a chunk of 0xFF bytes only is converted by   *)
(* the inbound path into samples that all have a magnitude below 100.      *)
(***************************************************************************)
C26_SilencePreserved ==
  /\ (applied.fn = "ulaw_to_pcm16" /\ applied.ulaw_bytes = <<255>>)
       => applied.out = <<0>>
  /\ (applied.fn = "pcm16_to_ulaw" /\ applied.pcm16 = <<0>>)
       => Abs(ulaw_to_pcm16(applied.out)[1]) < 100
  /\ applied.fn = "process_incoming_audio"
       => \A k \in 1..Len(applied.chunks) :
            OnlySilence(applied.chunks[k])
              => \A i \in 1..SampleCount(applied.out[k][1]) :
                   Abs(SampleAt(applied.out[k][1], i)) < 100
  /\ (applied.fn = "twilio_audio_to_pcm16" /\ ~B64DecodeRaises(applied.payload)
        /\ OnlySilence(B64Decode(applied.payload)))
       => /\ ~applied.raised
          /\ \A i \in 1..Len(applied.out) : Abs(applied.out[i]) < 100

(***************************************************************************)
(* C26, amended: the byte 0xFF decodes to the sample 0, and the sample 0   *)
(* encodes to a code that decodes to a magnitude below 100.  A chunk of    *)
(* 0xFF bytes only is converted by the inbound path into samples that are  *)
(* all 0, except the first sample when the resample state is carried from  *)
(* an earlier chunk: that sample lies halfway between the last sample of   *)
(* the earlier chunk and 0.  So all samples have a magnitude below 100     *)
(* when the chunk is converted from the empty state, or after a chunk that *)
(* ended in a sample of magnitude below 200, such as silence.              *)
(***************************************************************************)
C26_SilencePreservedFromSilence ==
  /\ (applied.fn = "ulaw_to_pcm16" /\ applied.ulaw_bytes = <<255>>)
       => applied.out = <<0>>
  /\ (applied.fn = "pcm16_to_ulaw" /\ applied.pcm16 = <<0>>)
       => Abs(ulaw_to_pcm16(applied.out)[1]) < 100
  /\ applied.fn = "process_incoming_audio"
       => \A k \in 1..Len(applied.chunks) :
            LET pcm_16k == applied.out[k][1]
                \* the last sample of the chunks before, 0 with none before
                last == IF k = 1 THEN 0 ELSE applied.out[k - 1][2].cur
            IN OnlySilence(applied.chunks[k])
                 => /\ SampleCount(pcm_16k) > 0
                    /\ \A i \in 2..SampleCount(pcm_16k) : SampleAt(pcm_16k, i) = 0
                    /\ 2 * SampleAt(pcm_16k, 1) \in {last - 1, last}
                    /\ Abs(last) < 200
                         => \A i \in 1..SampleCount(pcm_16k) :
                              Abs(SampleAt(pcm_16k, i)) < 100
  /\ (applied.fn = "twilio_audio_to_pcm16" /\ ~B64DecodeRaises(applied.payload)
        /\ OnlySilence(B64Decode(applied.payload)))
       => /\ ~applied.raised
          /\ \A i \in 1..Len(applied.out) : Abs(applied.out[i]) < 100

\* silence converted after a chunk that ended in the loudest sample: the
\* first sample is half of it, the others are 0
C26_Witness ==
  /\ applied.fn = "process_incoming_audio"
  /\ applied.chunks = <<<<128>>, Silence(4)>>
  /\ applied.out[1][1] = SamplesToBytes(<<32124>>)
  /\ applied.out[2][1] = SamplesToBytes(<<16062, 0, 0, 0, 0, 0, 0, 0>>)

(***************************************************************************)
(* C27, as stated: audio left in the frame accumulator when teardown       *)
(* begins is never sent: at Closed the bytes delivered to the AI peer are  *)
(* the converted inbound bytes minus a final residue shorter than the      *)
(* threshold.                                                              *)
(***************************************************************************)
C27_ResidueBelowThreshold ==
  Closed => /\ Concat(ai_sent) \o audio_buffer = ConvertedInbound
            /\ Len(audio_buffer) < BUFFER_SIZE

(***************************************************************************)
(* C27, amended: audio left in the frame accumulator when teardown begins  *)
(* is never sent, on stop, disconnect or error: at Closed the bytes        *)
(* delivered to the AI peer are the converted inbound bytes minus what the *)
(* accumulator still holds.  That residue is shorter than the threshold    *)
(* unless it was a send to the AI peer that failed and ended the loop:     *)
(* then it is the whole frame of that send, at least the threshold long.   *)
(***************************************************************************)
C27_ResidueNeverSent ==
  /\ [](Closed => Concat(ai_sent) \o audio_buffer = ConvertedInbound)
  /\ [](Closed /\ ai_leg # "send_error" => Len(audio_buffer) < BUFFER_SIZE)
  /\ [](Closed /\ ai_leg = "send_error"
          => teardown = "error" /\ Len(audio_buffer) >= BUFFER_SIZE)
  \* no flush at the step that ends the loop or after it
  /\ [][teardown' # "none" => UNCHANGED <<ai_sent, audio_buffer>>]_vars

\* Closed after a stop, with one frame delivered and audio accumulated after
\* it that was never sent
C27_Witness ==
  /\ Closed
  /\ teardown = "stop"
  /\ Len(ai_sent) = 1
  /\ audio_buffer # <<>>
  /\ Len(audio_buffer) < BUFFER_SIZE
  /\ ai_leg = "ok"

(***************************************************************************)
(* C28: a start message that carries no streamSid never leaves the session *)
(* running with an unknown stream id: handling it raises inside the        *)
(* message loop, which ends the loop and runs the normal teardown (pump    *)
(* cancelled and awaited, AI-peer connection closed, Closed reached); and  *)
(* no outbound media message is sent for a session whose start carried no  *)
(* stream id: every message sent carries a known id and is for a chunk     *)
(* taken up while that id was known.                                       *)
(***************************************************************************)
C28_StartWithoutSidEndsSession ==
  /\ [](main_pc = "recv" => ENABLED MainRecv("start_no_sid"))
  /\ [][MainRecv("start_no_sid") =>
          /\ stream_sid' = NoSid
          /\ main_pc' = "await_task" /\ cancel_req' /\ teardown' = "error"
          /\ errors' = errors \cup {"Media stream error"}
          /\ UNCHANGED <<tw_sent, tw_msg, tw_writes, ai_sent, audio_buffer>>]_vars
  /\ [](teardown = "error" /\ main_pc \in {"exit", "closed"} => pump_pc = "done")
  /\ (teardown = "error")
       ~> [](Closed /\ ~ai_open /\ ai_closes = 1 /\ pump_pc = "done")
  /\ [](\A i \in 1..Len(tw_sent) : SidKnown(tw_sent[i].streamSid))
  /\ [](tw_sent # <<>> => \E i \in 1..Len(ai_arrived) : SidKnown(ai_arrived[i].sid))

\* Closed after a start without a stream id that followed a start with an
\* empty one: the AI peer's audio was taken up, none was sent
C28_Witness ==
  /\ Closed
  /\ teardown = "error"
  /\ stream_sid = NoSid
  /\ \E i \in 1..Len(ai_arrived) : ai_arrived[i].sid = ""
  /\ \A i \in 1..Len(ai_arrived) : WellFormed(ai_arrived[i].data)
  /\ tw_sent = <<>>
  /\ ai_closes = 1

====
